---------------------------- MODULE Spec2Model ----------------------------
(***************************************************************************)
(* Model of the PetCar voice server: the stream channels                   *)
(* (server/pipeline/streaming_manager.py), the conversation pipeline       *)
(* (server/pipeline/conversation.py) and the WebSocket server              *)
(* (server/api/server.py); of the frame codec; of the car's voice activity *)
(* detector, microphone client and receive loops; and of the motor thread  *)
(* of the controller car.                                                  *)
(*                                                                         *)
(* The specifications share the variables; each leaves the others' alone:  *)
(*   ChanSpec  one stream channel driven by an arbitrary producer and one  *)
(*             `async for` consumer;                                       *)
(*   VadSpec   one VADDetector (car/audio/vad.py) and a caller that makes  *)
(*             any sequence of calls;                                      *)
(*   DrvSpec   the reference driver of the detector (vad.py, __main__);    *)
(*   MicSpec   the loop of MicClient.stream_audio_to_server                *)
(*             (car/audio/mic_client.py) over its detector;                *)
(*   CodecSpec the frame codec (server/api/protocol.py): to_json and       *)
(*             parse_frame applied to frames and to other inputs;          *)
(*   WakeSpec  the wake phrase check (server/models/asr_engine.py) and the *)
(*             command text cut from a transcript (conversation.py);       *)
(*   CarSpec   the two tasks of the car that iterate its connection        *)
(*             (car/comm/client.py, car/main.py);                          *)
(*   MotorSpec the motor thread, the web handler and the joystick thread   *)
(*             over the shared CarState (raspberry_car_by_controller);     *)
(*   Spec      the connection handlers and the tasks of a session, run by  *)
(*             the asyncio event loop (FairSpec adds the fairness of that  *)
(*             loop: a task that is ready to run is eventually run).       *)
(*                                                                         *)
(* Scheduling.  The tasks are coroutines of one event loop; a task runs    *)
(* without interruption between two suspension points.  The queues are     *)
(* asyncio.Queue() without maxsize, so `await queue.put(x)` never          *)
(* suspends; `await queue.get()`, `await task`, `await websocket.send(x)`  *)
(* and the websocket iteration are the suspension points, and each of them *)
(* starts a new action.                                                    *)
(*                                                                         *)
(* Text is a sequence of tokens.  The token "[ACTION:" stands for the      *)
(* literal prefix of an action tag, the other tokens for one character.    *)
(***************************************************************************)
EXTENDS Integers, Sequences, FiniteSets, TLC

\* ------------------------------------------------------------------ bounds

\* Binary messages the car sends over one connection.
MaxMsgs == 2
\* PCM chunks the synthesis engine yields for one text fragment.
MaxPcm == 1
\* put calls and close calls of the producer in ChanSpec.
MaxPuts == 4
MaxCloses == 2

\* ------------------------------------------------------------- the text

LB == "[ACTION:"
\* [a-zA-Z_]
NameChar == {"f", "s"}
\* [\w\d\s,.]
ArgChar == NameChar \cup {"5", ","}

\* The index of the first token of s at or after i that is not in S
\* (Len(s) + 1 when there is none): a greedy character-class repetition.
RECURSIVE SkipWhile(_, _, _)
SkipWhile(s, i, S) ==
    IF i <= Len(s) /\ s[i] \in S THEN SkipWhile(s, i + 1, S) ELSE i

\* ACTION_PATTERN matched at index i of s: the index of the closing "]",
\* or 0 when the pattern does not match there.
MatchAt(s, i) ==
    IF i > Len(s) \/ s[i] # LB THEN 0
    ELSE LET n == SkipWhile(s, i + 1, NameChar)
         IN  IF n = i + 1 \/ n > Len(s) \/ s[n] # "(" THEN 0
             ELSE LET a == SkipWhile(s, n + 1, ArgChar)
                  IN  IF a + 1 <= Len(s) /\ s[a] = ")" /\ s[a + 1] = "]"
                      THEN a + 1 ELSE 0

\* ACTION_PATTERN.search(s): the start of the leftmost match, 0 when none.
RECURSIVE SearchFrom(_, _)
SearchFrom(s, i) ==
    IF i > Len(s) THEN 0
    ELSE IF MatchAt(s, i) # 0 THEN i
    ELSE SearchFrom(s, i + 1)

Search(s) == SearchFrom(s, 1)

\* match.group(1) of the leftmost match: the command between "[ACTION:" and "]".
Group1(s) == SubSeq(s, Search(s) + 1, MatchAt(s, Search(s)) - 1)

\* re.sub(ACTION_PATTERN, "", s): every match removed, left to right.
RECURSIVE SubFrom(_, _)
SubFrom(s, i) ==
    IF i > Len(s) THEN << >>
    ELSE IF MatchAt(s, i) # 0 THEN SubFrom(s, MatchAt(s, i) + 1)
    ELSE <<s[i]>> \o SubFrom(s, i + 1)

Sub(s) == SubFrom(s, 1)

\* Optional[str] None of action_command; a command is never empty.
NoAction == << >>

TagForward == <<LB, "f", "(", "5", ")", "]">>
TagStop == <<LB, "s", "(", ")", "]">>

\* The replies the generation engine may stream, each a sequence of
\* fragments: nothing; text and a tag in one fragment; a tag split over two
\* fragments; two tags; text without a tag.
Replies ==
    { << >>,
      << <<"t">> \o TagForward >>,
      << <<"t", LB, "f", "(", "5">>, <<")", "]">> >>,
      << TagForward, <<"t">> \o TagStop >>,
      << <<"t">> >> }

Forward5 == <<"f", "(", "5", ")">>

\* "对不起，我没有听到唤醒词，请再说一次。"
Apology == <<"t", ",", "t">>


\* ------------------------------------------------------ the stream channel

\* A queue item: a chunk, or the None that close() enqueues.
Chunk(x) == [none |-> FALSE, v |-> x]
NoneItem == [none |-> TRUE]

\* AudioQueue(), TextQueue(), PCMQueue(): an empty asyncio.Queue, not finished.
NewQueue == [queue |-> << >>, is_finished |-> FALSE]

\* put: the chunk is enqueued unless is_finished; nothing is raised either way.
putNoCheck(q, chunk) ==
    [q |-> [q EXCEPT !.queue = Append(@, Chunk(chunk))], raised |-> "none"]

put(q, chunk) ==
    IF ~q.is_finished
    THEN [q |-> [q EXCEPT !.queue = Append(@, Chunk(chunk))], raised |-> "none"]
    ELSE [q |-> q, raised |-> "none"]

\* close: sets is_finished and enqueues None, whatever is_finished was.
close(q) ==
    [q |-> [q EXCEPT !.is_finished = TRUE, !.queue = Append(@, NoneItem)],
     raised |-> "none"]

\* get: the head of the queue (the caller is suspended while it is empty).
CanGet(q) == q.queue # << >>
Head1(q) == Head(q.queue)
Pop(q) == [q EXCEPT !.queue = Tail(@)]

\* The chunks of a sequence of items, in order.
RECURSIVE ChunksOf(_)
ChunksOf(items) ==
    IF items = << >> THEN << >>
    ELSE IF Head(items).none THEN ChunksOf(Tail(items))
    ELSE <<Head(items).v>> \o ChunksOf(Tail(items))

\* The number of None items of a sequence of items.
RECURSIVE NonesOf(_)
NonesOf(items) ==
    IF items = << >> THEN 0
    ELSE (IF Head(items).none THEN 1 ELSE 0) + NonesOf(Tail(items))

VARIABLES
    \* ChanSpec: one channel, its producer and its consumer
    ch,          \* the channel
    cPuts,       \* put calls made
    cCloses,     \* close calls made
    cBefore,     \* the chunks put before the first close, in put order
    cObserved,   \* the chunks the consumer's loop body has seen, in order
    cCons,       \* "iterating" | "stopped" (StopAsyncIteration was raised)
    cLast        \* the last producer call and what it raised

chanVars == <<ch, cPuts, cCloses, cBefore, cObserved, cCons, cLast>>

ChanInit0 ==
    /\ ch = NewQueue
    /\ cPuts = 0
    /\ cCloses = 0
    /\ cBefore = << >>
    /\ cObserved = << >>
    /\ cCons = "iterating"
    /\ cLast = [op |-> "none", wasFinished |-> FALSE, raised |-> "none"]

\* The producer calls put with the next chunk (chunks are numbered in call order).
CPut ==
    /\ cPuts < MaxPuts
    /\ LET r == put(ch, cPuts + 1)
       IN  /\ ch' = r.q
           /\ cLast' = [op |-> "put", wasFinished |-> ch.is_finished,
                        raised |-> r.raised]
    /\ cPuts' = cPuts + 1
    /\ cBefore' = IF cCloses = 0 THEN Append(cBefore, cPuts + 1) ELSE cBefore
    /\ UNCHANGED <<cCloses, cObserved, cCons>>

\* The producer calls close.
CClose ==
    /\ cCloses < MaxCloses
    /\ LET r == close(ch)
       IN  /\ ch' = r.q
           /\ cLast' = [op |-> "close", wasFinished |-> ch.is_finished,
                        raised |-> r.raised]
    /\ cCloses' = cCloses + 1
    /\ UNCHANGED <<cPuts, cBefore, cObserved, cCons>>

\* One round of the consumer's `async for`: __anext__ gets an item and raises
\* StopAsyncIteration for None, which ends the loop.
CNext ==
    /\ cCons = "iterating"
    /\ CanGet(ch)
    /\ ch' = Pop(ch)
    /\ IF Head1(ch).none
       THEN cCons' = "stopped" /\ UNCHANGED cObserved
       ELSE cObserved' = Append(cObserved, Head1(ch).v) /\ UNCHANGED cCons
    /\ UNCHANGED <<cPuts, cCloses, cBefore, cLast>>

\* ------------------------------------------------------- the VAD detector

\* vad.py: SILENCE_CHUNK_COUNT
SILENCE_CHUNK_COUNT == 50

\* vad.py: SILENCE_TIMEOUT_MS; no statement reads it.
SILENCE_TIMEOUT_MS == 1500

\* vad.py: CHUNK_MS of the reference driver, which is also the default of
\* chunk_duration_ms in VADDetector.__init__.
CHUNK_MS == 20

\* car/config.py
AUDIO_RATE == 16000
AUDIO_CHUNK_SIZE == 1024

\* MicClient.__init__: the chunk_duration_ms it constructs its detector with.
mic_chunk_duration_ms == (AUDIO_CHUNK_SIZE * 1000) \div (AUDIO_RATE * 2)

\* The frame durations the repository constructs a detector with.
ChunkDurations == {CHUNK_MS, mic_chunk_duration_ms}

\* collections.deque(maxlen=SILENCE_CHUNK_COUNT // 2)
BufferMax == SILENCE_CHUNK_COUNT \div 2

\* The silence counter is let grow to MaxCount, past the threshold, and
\* MaxEnds utterances are let begin.
MaxCount == 52
MaxEnds == 2

\* What process_chunk is given: a frame the backend classifies as speech, a
\* frame it classifies as non-speech, or a chunk of another byte length.
ChunkKinds == {"speech", "silence", "badsize"}

\* The payload of the k-th non-speech frame: the frames a full buffer holds
\* are pairwise distinct.
Payload(k) == k % (BufferMax + 1)

\* VADDetector.__init__: the fields of a new detector.
NewVad ==
    [silence_chunks_count |-> 0,
     active_speech_detected |-> FALSE,
     frame_buffer |-> << >>]

\* deque.append with maxlen: the oldest element leaves a full deque.
deque_append_unbounded(buf, x) == Append(buf, x)

deque_append(buf, x) ==
    IF Len(buf) < BufferMax THEN Append(buf, x)
    ELSE Append(SubSeq(buf, 2, Len(buf)), x)

\* VADDetector.process_chunk: the detector after it, and what it returns.
process_chunk_counts_when_silent(d, kind, x) ==
    CASE kind = "badsize" -> [d |-> d, ret |-> FALSE]
      [] kind = "speech" ->
           [d |-> [d EXCEPT !.active_speech_detected = TRUE,
                            !.silence_chunks_count = 0],
            ret |-> TRUE]
      [] OTHER ->
           [d |-> [d EXCEPT !.silence_chunks_count = @ + 1,
                            !.frame_buffer = deque_append(@, x)],
            ret |-> FALSE]

process_chunk_keeps_count(d, kind, x) ==
    CASE kind = "badsize" -> [d |-> d, ret |-> FALSE]
      [] kind = "speech" ->
           [d |-> [d EXCEPT !.active_speech_detected = TRUE],
            ret |-> TRUE]
      [] OTHER ->
           [d |-> [d EXCEPT
                     !.silence_chunks_count =
                         IF d.active_speech_detected THEN @ + 1 ELSE @,
                     !.frame_buffer = deque_append(@, x)],
            ret |-> FALSE]

process_chunk_buffers_badsize(d, kind, x) ==
    CASE kind = "speech" ->
           [d |-> [d EXCEPT !.active_speech_detected = TRUE,
                            !.silence_chunks_count = 0],
            ret |-> TRUE]
      [] OTHER ->
           [d |-> [d EXCEPT
                     !.silence_chunks_count =
                         IF d.active_speech_detected THEN @ + 1 ELSE @,
                     !.frame_buffer = deque_append(@, x)],
            ret |-> FALSE]

process_chunk(d, kind, x) ==
    CASE kind = "badsize" -> [d |-> d, ret |-> FALSE]
      [] kind = "speech" ->
           [d |-> [d EXCEPT !.active_speech_detected = TRUE,
                            !.silence_chunks_count = 0],
            ret |-> TRUE]
      [] OTHER ->
           [d |-> [d EXCEPT
                     !.silence_chunks_count =
                         IF d.active_speech_detected THEN @ + 1 ELSE @,
                     !.frame_buffer = deque_append(@, x)],
            ret |-> FALSE]

\* VADDetector.is_silence_end
is_silence_end_when_silent(d) ==
    IF ~d.active_speech_detected \/ d.silence_chunks_count > SILENCE_CHUNK_COUNT
    THEN [d |-> NewVad, ret |-> TRUE]
    ELSE [d |-> d, ret |-> FALSE]

is_silence_end_keeps_state(d) ==
    IF d.active_speech_detected /\ d.silence_chunks_count > SILENCE_CHUNK_COUNT
    THEN [d |-> d, ret |-> TRUE]
    ELSE [d |-> d, ret |-> FALSE]

is_silence_end(d) ==
    IF d.active_speech_detected /\ d.silence_chunks_count > SILENCE_CHUNK_COUNT
    THEN [d |-> [silence_chunks_count |-> 0,
                 active_speech_detected |-> FALSE,
                 frame_buffer |-> << >>],
          ret |-> TRUE]
    ELSE [d |-> d, ret |-> FALSE]

\* VADDetector.get_buffered_frames
get_buffered_frames(d) ==
    [d |-> [d EXCEPT !.frame_buffer = << >>], ret |-> d.frame_buffer]

\* VADDetector.reset
reset(d) ==
    [silence_chunks_count |-> 0,
     active_speech_detected |-> FALSE,
     frame_buffer |-> << >>]

VARIABLES
    \* VadSpec: one detector and its caller
    vad,         \* the detector's fields
    vArrived,    \* non-speech frames processed so far, modulo BufferMax + 1
    vSpeech,     \* a speech frame was processed, and since then the detector
                 \* was not reset and no utterance end was reported
    vRun,        \* non-speech frames processed since the last speech frame
    vEnds,       \* utterance ends reported
    vLast        \* the last call, what it was given and what it returned

vadVars == <<vad, vArrived, vSpeech, vRun, vEnds, vLast>>

NoCall == [op |-> "none"]

VadInit0 ==
    /\ vad = NewVad
    /\ vArrived = 0
    /\ vSpeech = FALSE
    /\ vRun = 0
    /\ vEnds = 0
    /\ vLast = NoCall

\* The caller gives the detector one chunk.
VProcess(kind) ==
    /\ kind = "speech" => vEnds < MaxEnds
    /\ kind = "silence" =>
          vRun < MaxCount /\ vad.silence_chunks_count < MaxCount
    /\ LET x == Payload(vArrived + 1)
           r == process_chunk(vad, kind, x)
       IN  /\ vad' = r.d
           /\ vLast' = [op |-> "process_chunk", kind |-> kind, ret |-> r.ret]
           /\ vArrived' = IF kind = "silence" THEN x ELSE vArrived
           /\ vSpeech' = (vSpeech \/ kind = "speech")
           /\ vRun' = CASE kind = "speech" -> 0
                        [] kind = "silence" /\ vSpeech -> vRun + 1
                        [] OTHER -> vRun
    /\ UNCHANGED vEnds

\* The caller asks whether the utterance has ended.
VPoll ==
    LET r == is_silence_end(vad)
    IN  /\ vad' = r.d
        /\ vLast' = [op |-> "is_silence_end", ret |-> r.ret,
                     speech |-> vSpeech, run |-> vRun]
        /\ vEnds' = IF r.ret /\ vEnds < MaxEnds THEN vEnds + 1 ELSE vEnds
        /\ vSpeech' = (vSpeech /\ ~r.ret)
        /\ vRun' = IF r.ret THEN 0 ELSE vRun
        /\ UNCHANGED vArrived

\* The caller takes the buffered frames.
VDrain ==
    LET r == get_buffered_frames(vad)
    IN  /\ vad' = r.d
        /\ vLast' = [op |-> "get_buffered_frames", ret |-> r.ret]
        /\ UNCHANGED <<vArrived, vSpeech, vRun, vEnds>>

\* The caller resets the detector.
VReset ==
    /\ vad' = reset(vad)
    /\ vLast' = [op |-> "reset"]
    /\ vSpeech' = FALSE
    /\ vRun' = 0
    /\ UNCHANGED <<vArrived, vEnds>>

\* ------------------------------------------------------- the frame codec

\* The four frame classes of protocol.py.
FrameClasses == {"AudioFrame", "TextFrame", "ControlCmd", "StatusMsg"}

\* The fields of each dataclass.
AllFields(cls) ==
    CASE cls = "AudioFrame" -> {"seq", "pcm_data", "is_final"}
      [] cls = "TextFrame" -> {"seq", "text", "type", "is_final"}
      [] cls = "ControlCmd" -> {"type", "value", "extra"}
      [] cls = "StatusMsg" -> {"code", "message", "ref_seq"}

\* The fields that have a default, and their defaults.
Defaults(cls) ==
    CASE cls = "AudioFrame" -> ("is_final" :> "False")
      [] cls = "TextFrame" -> ("is_final" :> "False")
      [] cls = "ControlCmd" -> ("extra" :> "None")
      [] cls = "StatusMsg" -> ("ref_seq" :> "None")

Required(cls) == AllFields(cls) \ DOMAIN Defaults(cls)

\* Python values, written as Python writes them, each with the JSON text
\* json.dumps gives it; json.loads reads the JSON text back.  A bytes value
\* has no JSON text.
ValuePairs ==
    { <<"0", "0">>, <<"1", "1">>, <<"7", "7">>, <<"200", "200">>, <<"500", "500">>,
      <<"True", "true">>, <<"False", "false">>, <<"None", "null">>,
      <<"''", "\"\"">>, <<"'hi'", "\"hi\"">>,
      <<"'action'", "\"action\"">>, <<"'llm_final'", "\"llm_final\"">>,
      <<"'forward(5)'", "\"forward(5)\"">>,
      <<"{'speed': 1}", "{\"speed\": 1}">> }

json_dumps_value(v) ==
    IF \E pr \in ValuePairs : pr[1] = v
    THEN (CHOOSE pr \in ValuePairs : pr[1] = v)[2]
    ELSE "TypeError"

json_loads_value(j) == (CHOOSE pr \in ValuePairs : pr[2] = j)[1]

\* A frame: its class and the values of its fields.  NoFrame is None.
Frame(cls, fields) == [cls |-> cls, fields |-> fields]
NoFrame == [cls |-> "None", fields |-> << >>]

\* A JSON text: an object with its members, text that is not JSON, a number,
\* true, false or null ("scalar"), a string or an array; for a string and an
\* array, elems are the field names that the operator `in` finds in it.
JsonObject(members) == [t |-> "object", members |-> members, elems |-> {}]
JsonOther(t, elems) == [t |-> t, members |-> << >>, elems |-> elems]

\* What parse_frame is given: a str, or a value that is no str, bytes or
\* bytearray.
StrData(text) == [kind |-> "str", text |-> text]
NonStrData == [kind |-> "nonstr", text |-> JsonOther("invalid", {})]

\* AudioFrame.to_json leaves pcm_data out; the other classes dump asdict(self).
to_json(f) ==
    LET keys == IF f.cls = "AudioFrame" THEN AllFields(f.cls) \ {"pcm_data"}
                ELSE AllFields(f.cls)
    IN  JsonObject([k \in keys |-> json_dumps_value(f.fields[k])])

\* json.loads(data) for a str.
json_loads(text) ==
    CASE text.t = "invalid" ->
           [err |-> "JSONDecodeError", t |-> "none", d |-> << >>, elems |-> {}]
      [] text.t = "object" ->
           [err |-> "none", t |-> "dict",
            d |-> [k \in DOMAIN text.members |-> json_loads_value(text.members[k])],
            elems |-> {}]
      [] OTHER ->
           [err |-> "none", t |-> text.t, d |-> << >>, elems |-> text.elems]

\* key in data_dict, for what json.loads returned: a dict, a str or a list.
Has(x, k) == IF x.t = "dict" THEN k \in DOMAIN x.d ELSE k \in x.elems

\* Cls(**data_dict): a frame, or "TypeError" for a value that is no mapping,
\* for a missing field and for an unexpected one.
Construct(cls, x) ==
    IF x.t = "dict" /\ Required(cls) \subseteq DOMAIN x.d
       /\ DOMAIN x.d \subseteq AllFields(cls)
    THEN [err |-> "none",
          frame |-> Frame(cls, [k \in AllFields(cls) |->
                                   IF k \in DOMAIN x.d THEN x.d[k]
                                   ELSE Defaults(cls)[k]])]
    ELSE [err |-> "TypeError", frame |-> NoFrame]

\* The class parse_frame chooses for what json.loads returned, "None" when
\* it chooses none.
Dispatch(x) ==
    IF Has(x, "pcm_data") THEN "AudioFrame"
    ELSE IF Has(x, "text") /\ Has(x, "type") THEN "TextFrame"
    ELSE IF Has(x, "type") /\ Has(x, "value") THEN "ControlCmd"
    ELSE IF Has(x, "code") /\ Has(x, "message") THEN "StatusMsg"
    ELSE "None"

Returned(frame) == [called |-> TRUE, raised |-> "none", ret |-> frame]
Raised(e) == [called |-> TRUE, raised |-> e, ret |-> NoFrame]

\* parse_frame(data).  For a value that is no str json.loads raises TypeError,
\* and the handler of TypeError reads data_dict, which is not bound yet.  For
\* a number, true, false or null the operator `in` raises TypeError, which
\* the handler turns into None.
parse_frame(data) ==
    IF data.kind = "nonstr" THEN Raised("UnboundLocalError")
    ELSE LET x == json_loads(data.text)
         IN  IF x.err = "JSONDecodeError" THEN Returned(NoFrame)
             ELSE IF x.t = "scalar" THEN Returned(NoFrame)
             ELSE IF Dispatch(x) = "None" THEN Returned(NoFrame)
             ELSE Returned(Construct(Dispatch(x), x).frame)

\* The frames the codec is given to encode.
Seqs == {"0", "1", "7"}
Bools == {"True", "False"}
Frames ==
    { Frame("AudioFrame", [seq |-> sq, pcm_data |-> pcm, is_final |-> fin]) :
        sq \in Seqs, pcm \in {"b''", "b'x'"}, fin \in Bools }
    \cup
    { Frame("TextFrame", [seq |-> sq, text |-> tx, type |-> ty,
                          is_final |-> fin]) :
        sq \in Seqs, tx \in {"''", "'hi'"}, ty \in {"'llm_final'", "'action'"},
        fin \in Bools }
    \cup
    { Frame("ControlCmd", [type |-> "'action'", value |-> va, extra |-> ex]) :
        va \in {"'forward(5)'", "''"}, ex \in {"None", "{'speed': 1}"} }
    \cup
    { Frame("StatusMsg", [code |-> co, message |-> me, ref_seq |-> rs]) :
        co \in {"200", "500"}, me \in {"''", "'hi'"}, rs \in {"None", "7"} }

\* The other inputs parse_frame is given: text that is not JSON; JSON that
\* is not an object; objects with an unrecognized, an incomplete and an
\* over-full field set; objects with a recognized field set; a value that is
\* no str.
OtherData ==
    { StrData(JsonOther("invalid", {})),
      StrData(JsonOther("scalar", {})),
      StrData(JsonOther("string", {})),
      StrData(JsonOther("string", {"pcm_data"})),
      StrData(JsonOther("array", {"text", "type"})),
      StrData(JsonOther("array", {"code"})),
      StrData(JsonObject(<< >>)),
      StrData(JsonObject("bogus" :> "7")),
      StrData(JsonObject("text" :> "\"hi\"" @@ "type" :> "\"llm_final\"")),
      StrData(JsonObject("type" :> "\"action\"" @@ "value" :> "\"\""
                         @@ "bogus" :> "7")),
      StrData(JsonObject("seq" :> "7" @@ "text" :> "\"hi\""
                         @@ "type" :> "\"action\"" @@ "value" :> "\"\"")),
      StrData(JsonObject("pcm_data" :> "\"hi\"" @@ "seq" :> "7")),
      StrData(JsonObject("type" :> "\"action\"" @@ "value" :> "\"forward(5)\"")),
      StrData(JsonObject("code" :> "500" @@ "message" :> "\"hi\"")),
      StrData(JsonObject("code" :> "500")),
      NonStrData }

VARIABLES
    \* CodecSpec: one user of the codec
    cdFrame,     \* the frame that was encoded, NoFrame when the input is another
    cdData,      \* what parse_frame is given
    cdOut        \* what parse_frame did

codecVars == <<cdFrame, cdData, cdOut>>

NotCalled == [called |-> FALSE, raised |-> "none", ret |-> NoFrame]

CodecInit0 ==
    /\ cdFrame = NoFrame
    /\ cdData = StrData(JsonOther("invalid", {}))
    /\ cdOut = NotCalled

\* A frame is encoded.
CEncode(f) ==
    /\ cdFrame' = f
    /\ cdData' = StrData(to_json(f))
    /\ cdOut' = NotCalled

\* Another input arrives.
CSupply(data) ==
    /\ cdFrame' = NoFrame
    /\ cdData' = data
    /\ cdOut' = NotCalled

\* The input is parsed.
CParse ==
    /\ ~cdOut.called
    /\ cdOut' = parse_frame(cdData)
    /\ UNCHANGED <<cdFrame, cdData>>

\* ------------------------------------------------------- the wake phrase

\* The longest transcript.
MaxText == 5

\* Characters: "s" and "c" are the two characters of the wake phrase
\* "小车小车"; "," is "，", "." is "。", " " is a space, "q" any other one.
Chars == {"s", "c", ",", ".", " ", "q"}

\* ASREngine.wakeup_word
wakeup_word == <<"s", "c", "s", "c">>

\* The transcripts.
Texts == UNION {[1..n -> Chars] : n \in 0..MaxText}

\* text.replace(chr, "") for every chr of chars.
RemoveChars(text, chars) == SelectSeq(text, LAMBDA chr : chr \notin chars)

\* Whether pat lies in text at index i.
OccursAt(text, pat, i) ==
    /\ i + Len(pat) - 1 <= Len(text)
    /\ \A k \in 1..Len(pat) : text[i + k - 1] = pat[k]

\* text.find(pat), from 1, 0 when pat is not in text.
Find(text, pat) ==
    IF \E i \in 1..Len(text) : OccursAt(text, pat, i)
    THEN CHOOSE i \in 1..Len(text) :
            /\ OccursAt(text, pat, i)
            /\ \A j \in 1..(i - 1) : ~OccursAt(text, pat, j)
    ELSE 0

\* pat in text
Contains(text, pat) == Find(text, pat) # 0

\* text.replace(pat, "", 1)
replace_first(text, pat) ==
    IF Find(text, pat) = 0 THEN text
    ELSE SubSeq(text, 1, Find(text, pat) - 1)
         \o SubSeq(text, Find(text, pat) + Len(pat), Len(text))

\* text.strip()
RECURSIVE lstrip(_)
lstrip(text) ==
    IF text # << >> /\ Head(text) = " " THEN lstrip(Tail(text)) ELSE text

RECURSIVE rstrip(_)
rstrip(text) ==
    IF text # << >> /\ text[Len(text)] = " "
    THEN rstrip(SubSeq(text, 1, Len(text) - 1)) ELSE text

strip(text) == rstrip(lstrip(text))

\* ASREngine.detect_wakeup_word, on the characters of the transcript.
is_detected(text) ==
    IF text = << >> THEN FALSE
    ELSE Contains(RemoveChars(text, {",", ".", " "}), wakeup_word)

\* _asr_to_llm: the prompt handed to _llm_chat_and_parse.
command_text(text) == strip(replace_first(text, wakeup_word))

VARIABLES
    \* WakeSpec: one transcript at the moment of the wake-phrase check:
    \* text is full_transcription, and checked, detected and prompt say
    \* whether the check was made, what it found, and the prompt
    wake

wakeVars == <<wake>>

WakeStart(text) ==
    wake = [text |-> text, checked |-> FALSE, detected |-> FALSE,
            prompt |-> << >>]

WakeInit0 == WakeStart(<< >>)

\* Any transcript may be the one that is checked.
WakeTexts == \E text \in Texts : WakeStart(text)

\* The wake-phrase check of _asr_to_llm on the transcript.
WCheck ==
    /\ ~wake.checked
    /\ wake' = [wake EXCEPT
                  !.checked = TRUE,
                  !.detected = is_detected(wake.text),
                  !.prompt = IF is_detected(wake.text)
                             THEN command_text(wake.text) ELSE << >>]

\* ------------------------------------------------- the microphone client

\* What stream.read returns: a chunk of one of ChunkKinds, or nothing.
MicChunks == ChunkKinds \cup {"empty"}

\* A captured chunk: its kind and, for a non-speech frame, its Payload.
MicChunk(kind, n) == [kind |-> kind, n |-> n]

\* One round of the loop of MicClient.stream_audio_to_server with VAD
\* enabled, on st = [vad, voice_active]: the detector and the flag after it,
\* and the chunks sent to the server in it.
mic_iteration_keeps_voice_active(st, chunk) ==
    IF chunk.kind = "empty"
    THEN [vad |-> st.vad, voice_active |-> st.voice_active, sent |-> << >>]
    ELSE LET p == process_chunk(st.vad, chunk.kind, chunk)
             e == is_silence_end(p.d)
         IN  IF ~st.voice_active /\ p.ret
             THEN [vad |-> p.d, voice_active |-> TRUE, sent |-> <<chunk>>]
             ELSE IF st.voice_active /\ ~p.ret
             THEN IF e.ret
                  THEN [vad |-> e.d, voice_active |-> TRUE, sent |-> << >>]
                  ELSE [vad |-> e.d, voice_active |-> TRUE, sent |-> <<chunk>>]
             ELSE [vad |-> p.d, voice_active |-> st.voice_active,
                   sent |-> IF st.voice_active THEN <<chunk>> ELSE << >>]

mic_iteration(st, chunk) ==
    IF chunk.kind = "empty"
    THEN [vad |-> st.vad, voice_active |-> st.voice_active, sent |-> << >>]
    ELSE LET p == process_chunk(st.vad, chunk.kind, chunk)
             e == is_silence_end(p.d)
         IN  IF ~st.voice_active /\ p.ret
             THEN [vad |-> p.d, voice_active |-> TRUE, sent |-> <<chunk>>]
             ELSE IF st.voice_active /\ ~p.ret
             THEN IF e.ret
                  THEN [vad |-> e.d, voice_active |-> FALSE, sent |-> << >>]
                  ELSE [vad |-> e.d, voice_active |-> TRUE, sent |-> <<chunk>>]
             ELSE [vad |-> p.d, voice_active |-> st.voice_active,
                   sent |-> IF st.voice_active THEN <<chunk>> ELSE << >>]

VARIABLES
    \* MicSpec: the streaming loop of one MicClient:
    \*   vad           self.vad: the fields of the client's detector
    \*   voice_active  the local flag of the loop
    \*   arrived       non-speech frames captured so far, modulo BufferMax + 1
    \*   last          the last round: its chunk, what the detector had
    \*                 buffered before it, whether it was a speech onset or
    \*                 an utterance end, and the chunks it sent
    mic

micVars == <<mic>>

NoRound ==
    [chunk |-> MicChunk("empty", 0), lead |-> << >>, onset |-> FALSE,
     end |-> FALSE, sent |-> << >>]

MicInit0 ==
    mic = [vad |-> NewVad, voice_active |-> FALSE, arrived |-> 0,
           last |-> NoRound]

\* One round of the loop, for a chunk of the given kind.
MRound(kind) ==
    LET n == IF kind = "silence" THEN Payload(mic.arrived + 1) ELSE 0
        chunk == MicChunk(kind, n)
        r == mic_iteration([vad |-> mic.vad, voice_active |-> mic.voice_active],
                           chunk)
        onset == ~mic.vad.active_speech_detected
                 /\ r.vad.active_speech_detected
    IN  mic' = [vad |-> r.vad,
                voice_active |-> r.voice_active,
                arrived |-> IF kind = "silence" THEN n ELSE mic.arrived,
                last |-> [chunk |-> chunk,
                          lead |-> IF onset THEN mic.vad.frame_buffer
                                   ELSE << >>,
                          onset |-> onset,
                          end |-> mic.vad.active_speech_detected
                                  /\ ~r.vad.active_speech_detected,
                          sent |-> r.sent]]

\* ------------------------------------------- the VAD reference driver

\* Frames the driver processes.
MaxDrvFrames == 7

\* simulate_processing(chunk, label) of vad.py, on st = [vad, frames]: the
\* detector and the send list frames_to_send after it.
simulate_processing(st, kind, x) ==
    LET p == process_chunk(st.vad, kind, x)
        g == get_buffered_frames(p.d)
        flush == p.ret /\ p.d.active_speech_detected
        d1 == IF flush THEN g.d ELSE p.d
        f1 == IF p.ret
              THEN (IF flush THEN st.frames \o g.ret ELSE st.frames) \o <<x>>
              ELSE IF p.d.active_speech_detected THEN st.frames \o <<x>>
              ELSE st.frames
        e == is_silence_end(d1)
    IN  [vad |-> e.d, frames |-> IF e.ret THEN << >> ELSE f1, end |-> e.ret]

VARIABLES
    \* DrvSpec: the reference driver and its detector:
    \*   vad             vad_detector: its fields
    \*   frames_to_send  the send list
    \*   frames          frames processed so far; frame k is the number k
    drv

drvVars == <<drv>>

DrvInit0 == drv = [vad |-> NewVad, frames_to_send |-> << >>, frames |-> 0]

\* The driver processes one full-size frame.
DProcess(kind) ==
    /\ drv.frames < MaxDrvFrames
    /\ LET r == simulate_processing([vad |-> drv.vad,
                                     frames |-> drv.frames_to_send],
                                    kind, drv.frames + 1)
       IN  drv' = [vad |-> r.vad, frames_to_send |-> r.frames,
                   frames |-> drv.frames + 1]

\* --------------------------------------------- the car: its receive loops

\* Frames the server sends on the connection.
MaxFrames == 4

\* What arrives: the ControlCmd frame of an action, a StatusMsg frame, text
\* parse_frame gives None for, or a binary message (synthesized audio).
FrameKinds == {"action", "status", "unknown", "binary"}
CarFrame(kind, n) == [kind |-> kind, id |-> n]

\* recv() of the connection, as both "async for message in conn" loops call
\* it: it raises while another coroutine is waiting in it for the next message
\* (the limit of the websockets API that run_client's comment names).
recv_raises_never(waiters) == FALSE

recv_raises(waiters) == waiters # {}

\* listen_for_control_commands, one message: a ControlCmd goes to
\* _control_handler, which is execute_action_command; nothing else acts.
listener_handle(executed, m) ==
    IF m.kind = "action" THEN Append(executed, m.id) ELSE executed

\* listen_for_control_commands from a recv() that returns: the queued
\* messages are taken one after the other, no step of which suspends; then
\* the loop waits in recv().
RECURSIVE listen_queued(_, _)
listen_queued(messages, executed) ==
    IF messages = << >> THEN executed
    ELSE listen_queued(Tail(messages), listener_handle(executed, Head(messages)))

\* _handle_incoming_messages from its call of recv(), on st = [messages,
\* waiters]: the task's next position and what is left of the queue.  main.py
\* imports neither parse_frame nor websockets, so a text message ends the task
\* with NameError before execute_action_command, and so does any exception,
\* whose except clause names websockets.
speaker_recv(st) ==
    IF recv_raises(st.waiters \ {"speaker"})
    THEN [task |-> "failed", messages |-> st.messages,
          waiters |-> st.waiters \ {"speaker"}]
    ELSE IF st.messages = << >>
    THEN [task |-> "waiting", messages |-> st.messages,
          waiters |-> st.waiters \cup {"speaker"}]
    ELSE IF Head(st.messages).kind = "binary"
    THEN [task |-> "writing", messages |-> Tail(st.messages),
          waiters |-> st.waiters \ {"speaker"}]
    ELSE [task |-> "failed", messages |-> Tail(st.messages),
          waiters |-> st.waiters \ {"speaker"}]

VARIABLES
    \* CarSpec: the car's connection and the two tasks that read it:
    \*   messages       messages received and not yet returned by recv()
    \*   waiters        the tasks waiting in recv()
    \*   listener_task  CommManager.listener_task
    \*   speaker_task   CarController.speaker_stream_task
    \*   arrived        all frames that arrived, in order
    \*   executed       the frames execute_action_command was called with
    car

carVars == <<car>>

\* run_client at its first suspension: both tasks are created, the listener
\* first, and none has run.
CarInit0 ==
    car = [messages |-> << >>, waiters |-> {}, listener_task |-> "created",
           speaker_task |-> "created", arrived |-> << >>, executed |-> << >>]

\* A frame arrives on the connection.
CarArrive(kind) ==
    /\ Len(car.arrived) < MaxFrames
    /\ LET m == CarFrame(kind, Len(car.arrived) + 1)
       IN  car' = [car EXCEPT !.arrived = Append(@, m),
                              !.messages = Append(@, m)]

\* listen_for_control_commands runs from its start, or from the recv() it
\* waited in, to its next wait.
ListenerRun ==
    /\ \/ car.listener_task = "created"
       \/ car.listener_task = "waiting" /\ car.messages # << >>
    /\ IF recv_raises(car.waiters \ {"listener"})
       THEN car' = [car EXCEPT !.listener_task = "stopped",
                               !.waiters = @ \ {"listener"}]
       ELSE car' = [car EXCEPT
                      !.executed = listen_queued(car.messages, @),
                      !.messages = << >>,
                      !.listener_task = "waiting",
                      !.waiters = @ \cup {"listener"}]

\* _handle_incoming_messages runs from its start (after the listener, which
\* was created first), from the recv() it waited in, or from the executor it
\* wrote a binary message with, to its next suspension or its end.
SpeakerRun ==
    /\ \/ car.speaker_task = "created" /\ car.listener_task # "created"
       \/ car.speaker_task = "waiting" /\ car.messages # << >>
       \/ car.speaker_task = "writing"
    /\ LET r == speaker_recv([messages |-> car.messages,
                              waiters |-> car.waiters])
       IN  car' = [car EXCEPT !.speaker_task = r.task,
                              !.messages = r.messages,
                              !.waiters = r.waiters]

\* ------------------------------------- the controller car: motor dead-man

\* config.py: TIMEOUT_SECONDS (1.0)
TIMEOUT_SECONDS == 1

\* The clock counts whole seconds up to MaxTime.
MaxTime == 4

\* Wheel speeds a control message sets: 0, or 1 for any speed that is not 0.
WheelSpeeds == {0, 1}

\* CarState.update_state(**kwargs) at the time now: the given fields are
\* set, and the timestamp always is.
update_state(st, kwargs, now) ==
    [k \in DOMAIN st |->
        IF k = "timestamp" THEN now
        ELSE IF k \in DOMAIN kwargs THEN kwargs[k] ELSE st[k]]

\* CarState.get_state: a copy
get_state(st) == st

VARIABLES
    \* MotorSpec: the shared CarState, the clock and the threads:
    \*   car_state       CarState._state: leftSpeed, rightSpeed, source,
    \*                   timestamp
    \*   clock           time.time(), in seconds
    \*   joystick_found  JoystickHandler found a joystick and its thread runs
    \*   pc              where MotorController.run is in its loop
    \*   state, left_speed, right_speed   the locals of MotorController.run
    \*   left_pwm, right_pwm   what _set_motors last set them to
    \*   lastCmd         when the last message that sets the wheel speeds came
    \*   checked, checked_at, checked_lastCmd   the last timeout check: done,
    \*                   its time, and lastCmd then
    controller

motorVars == <<controller>>

NewCarState ==
    [leftSpeed |-> 0, rightSpeed |-> 0, source |-> "web", timestamp |-> 0]

\* main.py: the threads are started; found: JoystickHandler found a joystick.
MotorStart(found) ==
    controller = [car_state |-> NewCarState, clock |-> 0,
                  joystick_found |-> found, pc |-> "get",
                  state |-> NewCarState, left_speed |-> 0, right_speed |-> 0,
                  left_pwm |-> 0, right_pwm |-> 0, lastCmd |-> 0,
                  checked |-> FALSE, checked_at |-> 0, checked_lastCmd |-> 0]

MotorInit0 == MotorStart(FALSE)

\* A joystick may be attached or not.
MotorThreads == \E found \in BOOLEAN : MotorStart(found)

\* A second passes.
Tick ==
    /\ controller.clock < MaxTime
    /\ controller' = [controller EXCEPT !.clock = @ + 1]

\* websocket_endpoint receives a control message with wheel speeds.
WebCommand(left, right) ==
    controller' = [controller EXCEPT
        !.car_state = update_state(@, [leftSpeed |-> left, rightSpeed |-> right,
                                       source |-> "web"], controller.clock),
        !.lastCmd = controller.clock]

\* JoystickHandler.run, one round: direction, speed and source are updated
\* (direction and speed are no fields the motor thread reads).
JoystickPoll ==
    /\ controller.joystick_found
    /\ controller' = [controller EXCEPT
         !.car_state = update_state(@, [source |-> "joystick"],
                                    controller.clock)]

\* MotorController.run: state = car_state.get_state() and the two speeds.
MotorGet ==
    /\ controller.pc = "get"
    /\ controller' = [controller EXCEPT
         !.state = get_state(controller.car_state),
         !.left_speed = get_state(controller.car_state).leftSpeed,
         !.right_speed = get_state(controller.car_state).rightSpeed,
         !.pc = "check"]

\* MotorController.run: the timeout check.
MotorCheck ==
    /\ controller.pc = "check"
    /\ IF controller.clock - controller.state.timestamp > TIMEOUT_SECONDS
       THEN controller' = [controller EXCEPT
                !.left_speed = 0, !.right_speed = 0, !.pc = "update",
                !.checked = TRUE, !.checked_at = controller.clock,
                !.checked_lastCmd = controller.lastCmd]
       ELSE controller' = [controller EXCEPT
                !.pc = "set",
                !.checked = TRUE, !.checked_at = controller.clock,
                !.checked_lastCmd = controller.lastCmd]

\* MotorController.run: car_state.update_state(leftSpeed=0.0, rightSpeed=0.0)
MotorUpdate ==
    /\ controller.pc = "update"
    /\ controller' = [controller EXCEPT
         !.car_state = update_state(@, [leftSpeed |-> 0, rightSpeed |-> 0],
                                    controller.clock),
         !.pc = "set"]

\* MotorController.run: _set_motors(left_speed, right_speed), then the sleep.
MotorSet ==
    /\ controller.pc = "set"
    /\ controller' = [controller EXCEPT
         !.left_pwm = controller.left_speed,
         !.right_pwm = controller.right_speed,
         !.pc = "get"]

\* ------------------------------------------------- the server and a session

\* The connections, named in the order they arrive.
Conns == {"A", "B"}
Paths == {"/audio/in", "/audio/out", "/control", "/other"}
\* The first connection comes on any path.  The second one is a car that
\* starts a session: it arrives while the first is connected, or after the
\* session of the first.
PathsOf(c) == IF c = "A" THEN Paths ELSE {"/audio/in"}
ChanNames == {"audio_in", "text_out", "pcm_out"}

\* A task that has finished, raised, or was cancelled.
Terminal == {"done", "failed", "cancelled"}

\* What the transcription engine answers for one audio chunk: nothing, text
\* without ("x") or with ("w") the wake phrase, or an exception.
AsrAnswers == {"none", "x", "w", "raise"}

VARIABLES
    \* PetCarServer and its connections
    car_connection,   \* self.car_connection: a connection or "None"
    hpc,              \* where the handler of each connection is
    closeCode,        \* the code the server closed each connection with (0: none)
    wsOpen,           \* whether each connection is open
    nMsgs,            \* binary messages received on the active connection
    sess,             \* the connection whose handler started the current session
    \* StreamingManager and ConversationPipeline of the current session
    mgr,              \* per channel: the manager's field is not None
    chan,             \* the three queues
    conversation_active,
    full_transcription,
    asr, llm, tts, push, rp,   \* the tasks
    cancelReq,        \* tasks whose cancel() was called while they were not done
    asrResult,        \* what _asr_to_llm returned
    llm_action,       \* action_command of _llm_chat_and_parse
    llm_full,         \* full_response of _llm_chat_and_parse
    llm_raised,       \* the generation engine raised
    rpResult,         \* what run_pipeline returned
    \* history
    closeCalls,       \* close() calls per channel in this session
    spoken,           \* all text that entered text_out, concatenated
    nPcm,             \* PCM chunks the synthesis engine has yielded, numbered 1..nPcm
    pcmPut,           \* the PCM chunks the PCM queue has accepted, in order
    sentBin,          \* binary messages sent to the car, in order
    sentText          \* text frames sent to the car, in order

connVars == <<car_connection, hpc, closeCode, wsOpen, nMsgs, sess>>
taskVars == <<asr, llm, tts, push, rp, cancelReq>>
pipeVars == <<mgr, chan, conversation_active, full_transcription, asrResult,
              llm_action, llm_full, llm_raised, rpResult>>
histVars == <<closeCalls, spoken, nPcm, pcmPut, sentBin, sentText>>
sessVars == <<connVars, taskVars, pipeVars, histVars>>

\* What no step of the server touches.
otherVars == <<chanVars, vadVars, codecVars, wakeVars, micVars, drvVars, carVars, motorVars>>

vars == <<chanVars, vadVars, codecVars, wakeVars, micVars, drvVars, carVars, motorVars, sessVars>>

NoResult == [returned |-> FALSE, success |-> FALSE, action |-> NoAction]

\* start_new_session without new queues.
FreshSessionKeepsQueues ==
    /\ chan' = chan
    /\ mgr' = [n \in ChanNames |-> TRUE]
    /\ conversation_active' = FALSE
    /\ full_transcription' = << >>
    /\ asr' = "none" /\ llm' = "none" /\ tts' = "none" /\ push' = "none"
    /\ cancelReq' = {}
    /\ asrResult' = NoAction
    /\ llm_action' = NoAction
    /\ llm_full' = << >>
    /\ llm_raised' = FALSE
    /\ rpResult' = NoResult
    /\ closeCalls' = [n \in ChanNames |-> 0]
    /\ spoken' = << >>
    /\ nPcm' = 0
    /\ pcmPut' = << >>
    /\ sentBin' = << >>
    /\ sentText' = << >>

\* The state of a session whose channels were just created and whose tasks
\* do not exist yet.
FreshSession ==
    /\ chan' = [n \in ChanNames |-> NewQueue]
    /\ mgr' = [n \in ChanNames |-> TRUE]
    /\ conversation_active' = FALSE
    /\ full_transcription' = << >>
    /\ asr' = "none" /\ llm' = "none" /\ tts' = "none" /\ push' = "none"
    /\ cancelReq' = {}
    /\ asrResult' = NoAction
    /\ llm_action' = NoAction
    /\ llm_full' = << >>
    /\ llm_raised' = FALSE
    /\ rpResult' = NoResult
    /\ closeCalls' = [n \in ChanNames |-> 0]
    /\ spoken' = << >>
    /\ nPcm' = 0
    /\ pcmPut' = << >>
    /\ sentBin' = << >>
    /\ sentText' = << >>

SessInit ==
    /\ car_connection = "None"
    /\ hpc = [c \in Conns |-> "new"]
    /\ closeCode = [c \in Conns |-> 0]
    /\ wsOpen = [c \in Conns |-> FALSE]
    /\ nMsgs = 0
    /\ sess = "None"
    /\ chan = [n \in ChanNames |-> NewQueue]
    /\ mgr = [n \in ChanNames |-> FALSE]
    /\ conversation_active = FALSE
    /\ full_transcription = << >>
    /\ asr = "none" /\ llm = "none" /\ tts = "none" /\ push = "none"
    /\ rp = "none"
    /\ cancelReq = {}
    /\ asrResult = NoAction
    /\ llm_action = NoAction
    /\ llm_full = << >>
    /\ llm_raised = FALSE
    /\ rpResult = NoResult
    /\ closeCalls = [n \in ChanNames |-> 0]
    /\ spoken = << >>
    /\ nPcm = 0
    /\ pcmPut = << >>
    /\ sentBin = << >>
    /\ sentText = << >>

\* StreamingManager.close_all on the state (m: mgr, ch: chan, cc: closeCalls):
\* every queue the manager still holds is closed, then the fields are None.
close_all(st) ==
    [mgr |-> [n \in ChanNames |-> FALSE],
     chan |-> [n \in ChanNames |->
                 IF st.mgr[n] THEN close(st.chan[n]).q ELSE st.chan[n]],
     closeCalls |-> [n \in ChanNames |->
                 IF st.mgr[n] THEN st.closeCalls[n] + 1 ELSE st.closeCalls[n]]]

\* ConversationPipeline.is_active
is_active(m) == m["audio_in"]

\* task.cancel(): noted for a task that exists and is not done.
TaskState(t) ==
    CASE t = "asr" -> asr [] t = "tts" -> tts [] t = "push" -> push
Cancel(req, t) ==
    IF TaskState(t) \in Terminal \cup {"none"} THEN req ELSE req \cup {t}

\* ---------------------------------------------- PetCarServer: connections

\* _handle_connection, the refusal: the new connection is closed with 1008
\* and the handler returns before its try/finally.
RefuseRunsFinally(c) ==
    /\ closeCode' = [closeCode EXCEPT ![c] = 1008]
    /\ wsOpen' = [wsOpen EXCEPT ![c] = FALSE]
    /\ hpc' = [hpc EXCEPT ![c] = "rejected"]
    /\ car_connection' = "None"
    /\ LET r == close_all([mgr |-> mgr, chan |-> chan, closeCalls |-> closeCalls])
       IN  mgr' = r.mgr /\ chan' = r.chan /\ closeCalls' = r.closeCalls
    /\ UNCHANGED <<nMsgs, sess, taskVars, conversation_active,
                   full_transcription, asrResult, llm_action, llm_full,
                   llm_raised, rpResult, spoken, nPcm, pcmPut, sentBin, sentText>>

Refuse(c) ==
    /\ closeCode' = [closeCode EXCEPT ![c] = 1008]
    /\ wsOpen' = [wsOpen EXCEPT ![c] = FALSE]
    /\ hpc' = [hpc EXCEPT ![c] = "rejected"]
    /\ UNCHANGED <<car_connection, nMsgs, sess, taskVars, pipeVars, histVars>>

\* The finally of _handle_connection.
HandlerFinally(c) ==
    /\ car_connection' = "None"
    /\ hpc' = [hpc EXCEPT ![c] = "finished"]
    /\ IF is_active(mgr)
       THEN LET r == close_all([mgr |-> mgr, chan |-> chan,
                                closeCalls |-> closeCalls])
            IN  mgr' = r.mgr /\ chan' = r.chan /\ closeCalls' = r.closeCalls
       ELSE UNCHANGED <<mgr, chan, closeCalls>>

\* A connection arrives and _handle_connection runs to its first suspension.
\* For /audio/in that is the websocket iteration of _audio_in_handler, after
\* start_new_session and the creation of the pipeline task.  start_new_session
\* calls close_all on the queues the manager still holds and replaces them;
\* the handler of the previous session has ended by then, so its pipeline
\* task is done, close_all has run and the manager holds none.
Connect(c, p) ==
    /\ hpc[c] = "new"
    /\ c = "B" => (car_connection # "None" \/ sess = "A")
    /\ IF car_connection # "None"
       THEN Refuse(c)
       ELSE /\ nMsgs' = 0
            /\ CASE p = "/audio/in" ->
                      /\ car_connection' = c
                      /\ wsOpen' = [wsOpen EXCEPT ![c] = TRUE]
                      /\ hpc' = [hpc EXCEPT ![c] = "recv"]
                      /\ sess' = c
                      /\ FreshSession
                      /\ rp' = "start"
                      /\ UNCHANGED closeCode
                 [] p \in {"/audio/out", "/control"} ->
                      /\ car_connection' = c
                      /\ wsOpen' = [wsOpen EXCEPT ![c] = TRUE]
                      /\ hpc' = [hpc EXCEPT
                                   ![c] = IF p = "/control" THEN "control"
                                          ELSE "wait_closed"]
                      /\ UNCHANGED <<closeCode, sess, taskVars, pipeVars, histVars>>
                 [] OTHER ->
                      /\ closeCode' = [closeCode EXCEPT ![c] = 1000]
                      /\ wsOpen' = [wsOpen EXCEPT ![c] = FALSE]
                      /\ HandlerFinally(c)
                      /\ UNCHANGED <<sess, taskVars, conversation_active,
                                     full_transcription, asrResult, llm_action,
                                     llm_full, llm_raised, rpResult,
                                     spoken, nPcm, pcmPut, sentBin, sentText>>
    /\ UNCHANGED otherVars

\* The car, or the network, closes an open connection.
ConnLost(c) ==
    /\ wsOpen[c]
    /\ wsOpen' = [wsOpen EXCEPT ![c] = FALSE]
    /\ UNCHANGED <<car_connection, hpc, closeCode, nMsgs, sess,
                   taskVars, pipeVars, histVars, otherVars>>

\* _audio_in_handler receives a binary message and puts it in the audio queue.
RecvBinary(c) ==
    /\ hpc[c] = "recv" /\ wsOpen[c] /\ nMsgs < MaxMsgs
    /\ nMsgs' = nMsgs + 1
    /\ chan' = [chan EXCEPT !["audio_in"] = put(@, "a").q]
    /\ UNCHANGED <<car_connection, hpc, closeCode, wsOpen, sess, taskVars,
                   mgr, conversation_active, full_transcription, asrResult,
                   llm_action, llm_full, llm_raised, rpResult,
                   histVars, otherVars>>

\* _audio_in_handler ignores a text message; _control_handler prints one.
RecvText(c) ==
    /\ hpc[c] \in {"recv", "control"} /\ wsOpen[c]
    /\ UNCHANGED vars

\* The websocket iteration of _audio_in_handler ends because the connection
\* is closed: the finally closes the audio queue and waits for the pipeline.
StreamEnd(c) ==
    /\ hpc[c] = "recv" /\ ~wsOpen[c]
    /\ hpc' = [hpc EXCEPT ![c] = "await_pipeline"]
    /\ chan' = [chan EXCEPT !["audio_in"] = close(@).q]
    /\ closeCalls' = [closeCalls EXCEPT !["audio_in"] = @ + 1]
    /\ UNCHANGED <<car_connection, closeCode, wsOpen, nMsgs, sess, taskVars,
                   mgr, conversation_active, full_transcription, asrResult,
                   llm_action, llm_full, llm_raised, rpResult,
                   spoken, nPcm, pcmPut, sentBin, sentText, otherVars>>

\* _send_control_cmd: the text frames sent after it.
ControlCmd(value) == [type |-> "action", value |-> value]
send_control_cmd(sent, value) ==
    IF car_connection # "None" /\ wsOpen[car_connection]
    THEN Append(sent, ControlCmd(value))
    ELSE sent

\* The pipeline task is done: _audio_in_handler sends the action command if
\* the pipeline succeeded with one, and _handle_connection ends.
PipelineDoneNoWait(c) ==
    /\ hpc[c] = "await_pipeline"
    /\ sentText' = IF rp = "done" /\ rpResult.success
                      /\ rpResult.action # NoAction
                   THEN send_control_cmd(sentText, rpResult.action)
                   ELSE sentText
    /\ HandlerFinally(c)
    /\ UNCHANGED <<closeCode, wsOpen, nMsgs, sess, taskVars,
                   conversation_active, full_transcription, asrResult,
                   llm_action, llm_full, llm_raised, rpResult,
                   spoken, nPcm, pcmPut, sentBin, otherVars>>

PipelineDone(c) ==
    /\ hpc[c] = "await_pipeline" /\ rp \in {"done", "failed"}
    /\ sentText' = IF rp = "done" /\ rpResult.success
                      /\ rpResult.action # NoAction
                   THEN send_control_cmd(sentText, rpResult.action)
                   ELSE sentText
    /\ HandlerFinally(c)
    /\ UNCHANGED <<closeCode, wsOpen, nMsgs, sess, taskVars,
                   conversation_active, full_transcription, asrResult,
                   llm_action, llm_full, llm_raised, rpResult,
                   spoken, nPcm, pcmPut, sentBin, otherVars>>

\* _audio_out_handler and _control_handler end when the connection is closed.
WaitClosed(c) ==
    /\ hpc[c] \in {"wait_closed", "control"} /\ ~wsOpen[c]
    /\ HandlerFinally(c)
    /\ UNCHANGED <<closeCode, wsOpen, nMsgs, sess, taskVars,
                   conversation_active, full_transcription, asrResult,
                   llm_action, llm_full, llm_raised, rpResult,
                   spoken, nPcm, pcmPut, sentBin, sentText, otherVars>>

\* ------------------------------------------- ConversationPipeline: tasks

\* _run_conversation_pipeline starts: it creates the PCM pusher and calls
\* run_pipeline, which creates the transcription and synthesis tasks and
\* awaits the first.  get_queues raises when the manager holds no queues.
RpStart ==
    /\ rp = "start"
    /\ push' = "get"
    /\ IF mgr["audio_in"] /\ mgr["text_out"] /\ mgr["pcm_out"]
       THEN /\ asr' = "run" /\ tts' = "run"
            /\ rp' = "await_asr"
            /\ UNCHANGED cancelReq
       ELSE /\ rp' = "await_push"
            /\ cancelReq' = cancelReq \cup {"push"}
            /\ UNCHANGED <<asr, tts>>
    /\ UNCHANGED <<llm, connVars, pipeVars, histVars, otherVars>>

\* run_pipeline returns (success, action): its finally calls close_all, and
\* the finally of _run_conversation_pipeline cancels the PCM pusher and
\* awaits it.
RpReturn(success, action, req) ==
    /\ rpResult' = [returned |-> TRUE, success |-> success, action |-> action]
    /\ LET r == close_all([mgr |-> mgr, chan |-> chan, closeCalls |-> closeCalls])
       IN  mgr' = r.mgr /\ chan' = r.chan /\ closeCalls' = r.closeCalls
    /\ cancelReq' = Cancel(req, "push")
    /\ rp' = "await_push"

\* `await asr_task` ends.  The generation task the transcription task created
\* was scheduled before the wake-up of run_pipeline and has no suspension
\* point, so it has run by now.
RpAsrDone ==
    /\ rp = "await_asr" /\ asr \in Terminal /\ llm # "pending"
    /\ IF asr = "done"
       THEN /\ rp' = "await_tts"
            /\ rpResult' = [rpResult EXCEPT !.action = asrResult]
            /\ UNCHANGED <<mgr, chan, closeCalls, cancelReq>>
       ELSE RpReturn(FALSE, NoAction, Cancel(Cancel(cancelReq, "asr"), "tts"))
    /\ UNCHANGED <<asr, llm, tts, push, connVars, conversation_active,
                   full_transcription, asrResult, llm_action, llm_full,
                   llm_raised, spoken, nPcm, pcmPut, sentBin, sentText, otherVars>>

\* `await tts_task` ends.
RpTtsDone ==
    /\ rp = "await_tts" /\ tts \in Terminal
    /\ IF tts = "done"
       THEN RpReturn(TRUE, rpResult.action, cancelReq)
       ELSE RpReturn(FALSE, NoAction, Cancel(Cancel(cancelReq, "asr"), "tts"))
    /\ UNCHANGED <<asr, llm, tts, push, connVars, conversation_active,
                   full_transcription, asrResult, llm_action, llm_full,
                   llm_raised, spoken, nPcm, pcmPut, sentBin, sentText, otherVars>>

\* gather(pcm_push_task) ends and the pipeline task is done.  The event loop
\* runs callbacks in the order they were scheduled: a CancelledError that
\* run_pipeline requested for its tasks was scheduled before the one of the
\* pusher and is delivered before the pusher's end wakes this task up.
RpPushDone ==
    /\ rp = "await_push" /\ push \in Terminal /\ cancelReq = {}
    /\ rp' = IF rpResult.returned THEN "done" ELSE "failed"
    /\ UNCHANGED <<asr, llm, tts, push, cancelReq, connVars, pipeVars, histVars,
                   otherVars>>

\* A task whose cancel() was called receives CancelledError at its
\* suspension point and ends (none of them closes a queue on the way).
TaskCancelled(t) ==
    /\ t \in cancelReq
    /\ cancelReq' = cancelReq \ {t}
    /\ asr' = IF t = "asr" THEN "cancelled" ELSE asr
    /\ tts' = IF t = "tts" THEN "cancelled" ELSE tts
    /\ push' = IF t = "push" THEN "cancelled" ELSE push
    /\ UNCHANGED <<llm, rp, connVars, pipeVars, histVars, otherVars>>

\* asr_engine.detect_wakeup_word(full_transcription)
detect_wakeup_word(text) == \E k \in 1..Len(text) : text[k] = "w"

\* _asr_to_llm, the condition under which the generation stage is launched:
\* not self.conversation_active and detect_wakeup_word(full_transcription)
wake_triggers_always(active, text) == detect_wakeup_word(text)

wake_triggers(active, text) == ~active /\ detect_wakeup_word(text)

\* _asr_to_llm, one round of the loop over the audio queue.
AsrChunk(answer) ==
    /\ asr = "run" /\ "asr" \notin cancelReq
    /\ CanGet(chan["audio_in"]) /\ ~Head1(chan["audio_in"]).none
    /\ chan' = [chan EXCEPT !["audio_in"] = Pop(@)]
    /\ CASE answer = "raise" ->
              /\ asr' = "failed"
              /\ UNCHANGED <<llm, full_transcription, conversation_active>>
         [] answer = "none" ->
              UNCHANGED <<asr, llm, full_transcription, conversation_active>>
         [] OTHER ->
              /\ full_transcription' = Append(full_transcription, answer)
              /\ IF wake_triggers(conversation_active,
                                  Append(full_transcription, answer))
                 THEN conversation_active' = TRUE /\ llm' = "pending"
                 ELSE UNCHANGED <<conversation_active, llm>>
              /\ UNCHANGED asr
    /\ UNCHANGED <<tts, push, rp, cancelReq, connVars, mgr, asrResult, llm_action,
                   llm_full, llm_raised, rpResult, histVars, otherVars>>

\* _asr_to_llm without a wake phrase: the apology is put on the text queue,
\* which is then closed.
asr_fallback_close_first(q) ==
    [q |-> put(close(q).q, Apology).q, accepted |-> FALSE]

asr_fallback(q) ==
    [q |-> close(put(q, Apology).q).q, accepted |-> ~q.is_finished]

\* _asr_to_llm: whether the apology is due at the end of the audio stream.
fallback_due_always(active) == TRUE

fallback_due(active) == ~active

\* _asr_to_llm, the end of the audio stream: end_stream, and without a wake
\* phrase the apology is put and the text queue closed.  The function
\* returns its own action_command, which it never assigns.
AsrEnd(raises) ==
    /\ asr = "run" /\ "asr" \notin cancelReq
    /\ CanGet(chan["audio_in"]) /\ Head1(chan["audio_in"]).none
    /\ IF raises
       THEN /\ asr' = "failed"
            /\ chan' = [chan EXCEPT !["audio_in"] = Pop(@)]
            /\ UNCHANGED <<closeCalls, spoken, asrResult>>
       ELSE /\ asr' = "done"
            /\ asrResult' = NoAction
            /\ IF fallback_due(conversation_active)
               THEN /\ chan' = [chan EXCEPT
                         !["audio_in"] = Pop(@),
                         !["text_out"] = asr_fallback(@).q]
                    /\ closeCalls' = [closeCalls EXCEPT !["text_out"] = @ + 1]
                    /\ spoken' = IF asr_fallback(chan["text_out"]).accepted
                                 THEN spoken \o Apology ELSE spoken
               ELSE /\ chan' = [chan EXCEPT !["audio_in"] = Pop(@)]
                    /\ UNCHANGED <<closeCalls, spoken>>
    /\ UNCHANGED <<llm, tts, push, rp, cancelReq, connVars, mgr,
                   conversation_active, full_transcription, llm_action, llm_full,
                   llm_raised, rpResult, nPcm, pcmPut, sentBin, sentText, otherVars>>

\* _llm_chat_and_parse, one round of the loop over the reply stream, on
\* st = [full, action, q, spoken].
LlmChunkLastWins(st, chunk) ==
    LET full == st.full \o chunk
        hit == Search(chunk) # 0
        clean == IF hit THEN Sub(chunk) ELSE chunk
        accepted == clean # << >> /\ ~st.q.is_finished
    IN  [full |-> full,
         action |-> IF hit THEN Group1(chunk) ELSE st.action,
         q |-> IF clean # << >> THEN put(st.q, clean).q ELSE st.q,
         spoken |-> IF accepted THEN st.spoken \o clean ELSE st.spoken]

LlmChunk(st, chunk) ==
    LET full == st.full \o chunk
        hit == Search(full) # 0 /\ st.action = NoAction
        clean == IF hit THEN Sub(chunk) ELSE chunk
        accepted == clean # << >> /\ ~st.q.is_finished
    IN  [full |-> full,
         action |-> IF hit THEN Group1(full) ELSE st.action,
         q |-> IF clean # << >> THEN put(st.q, clean).q ELSE st.q,
         spoken |-> IF accepted THEN st.spoken \o clean ELSE st.spoken]

RECURSIVE LlmLoop(_, _, _)
LlmLoop(st, reply, i) ==
    IF i > Len(reply) THEN st ELSE LlmLoop(LlmChunk(st, reply[i]), reply, i + 1)

\* The finally of _llm_chat_and_parse: the text queue is closed.
llm_finally_no_close(q) == [q |-> q, closes |-> 0]

llm_finally(q) == [q |-> close(q).q, closes |-> 1]

\* _llm_chat_and_parse: the whole task runs in one piece, since a put on an
\* unbounded queue never suspends.  The engine yields the fragments of reply
\* and then ends or raises; either way the finally closes the text queue.
LlmRun(reply, raises) ==
    /\ llm = "pending"
    /\ LET st == LlmLoop([full |-> << >>, action |-> NoAction,
                          q |-> chan["text_out"], spoken |-> spoken], reply, 1)
       IN  /\ llm_full' = st.full
           /\ llm_action' = st.action
           /\ spoken' = st.spoken
           /\ chan' = [chan EXCEPT !["text_out"] = llm_finally(st.q).q]
           /\ closeCalls' = [closeCalls EXCEPT
                                !["text_out"] = @ + llm_finally(st.q).closes]
    /\ llm_raised' = raises
    /\ llm' = "done"
    /\ UNCHANGED <<asr, tts, push, rp, cancelReq, connVars, mgr,
                   conversation_active, full_transcription, asrResult,
                   rpResult, nPcm, pcmPut, sentBin, sentText, otherVars>>

\* How many PCM chunks the synthesis engine yields for one text fragment:
\* none, or MaxPcm.
PcmCounts == {0, MaxPcm}

\* n chunks, numbered from first, put in q.
RECURSIVE PutPcm(_, _, _)
PutPcm(q, first, n) ==
    IF n = 0 THEN q ELSE PutPcm(put(q, first).q, first + 1, n - 1)

\* _llm_to_tts, one round of the loop over the text queue: the synthesis
\* engine yields n PCM chunks, each put in the PCM queue, and then ends or
\* raises.
TtsChunkClosesEarly(n, raises) ==
    /\ tts = "run" /\ "tts" \notin cancelReq
    /\ CanGet(chan["text_out"]) /\ ~Head1(chan["text_out"]).none
    /\ chan' = [chan EXCEPT !["text_out"] = Pop(@),
                            !["pcm_out"] = close(PutPcm(@, nPcm + 1, n)).q]
    /\ nPcm' = nPcm + n
    /\ pcmPut' = IF chan["pcm_out"].is_finished THEN pcmPut
                 ELSE pcmPut \o [k \in 1..n |-> nPcm + k]
    /\ closeCalls' = [closeCalls EXCEPT !["pcm_out"] = @ + 1]
    /\ tts' = IF raises THEN "failed" ELSE "run"
    /\ UNCHANGED <<asr, llm, push, rp, cancelReq, connVars, mgr,
                   conversation_active, full_transcription, asrResult, llm_action,
                   llm_full, llm_raised, rpResult, spoken,
                   sentBin, sentText, otherVars>>

TtsChunk(n, raises) ==
    /\ tts = "run" /\ "tts" \notin cancelReq
    /\ CanGet(chan["text_out"]) /\ ~Head1(chan["text_out"]).none
    /\ chan' = [chan EXCEPT !["text_out"] = Pop(@),
                            !["pcm_out"] = PutPcm(@, nPcm + 1, n)]
    /\ nPcm' = nPcm + n
    /\ pcmPut' = IF chan["pcm_out"].is_finished THEN pcmPut
                 ELSE pcmPut \o [k \in 1..n |-> nPcm + k]
    /\ tts' = IF raises THEN "failed" ELSE "run"
    /\ UNCHANGED <<asr, llm, push, rp, cancelReq, connVars, mgr,
                   conversation_active, full_transcription, asrResult, llm_action,
                   llm_full, llm_raised, rpResult, closeCalls, spoken,
                   sentBin, sentText, otherVars>>

\* _llm_to_tts, the end of the text stream: the PCM queue is closed.
TtsEnd ==
    /\ tts = "run" /\ "tts" \notin cancelReq
    /\ CanGet(chan["text_out"]) /\ Head1(chan["text_out"]).none
    /\ chan' = [chan EXCEPT !["text_out"] = Pop(@),
                            !["pcm_out"] = close(@).q]
    /\ closeCalls' = [closeCalls EXCEPT !["pcm_out"] = @ + 1]
    /\ tts' = "done"
    /\ UNCHANGED <<asr, llm, push, rp, cancelReq, connVars, mgr,
                   conversation_active, full_transcription, asrResult, llm_action,
                   llm_full, llm_raised, rpResult, spoken, nPcm, pcmPut,
                   sentBin, sentText, otherVars>>

\* websocket.send(pcm_chunk): the binary messages sent after it.
send_binary(sent, chunk) == Append(sent, chunk)

\* _push_pcm_stream gets the next item of the PCM queue: None ends it; a
\* chunk is sent, which raises ConnectionClosed on a closed connection and
\* otherwise writes the message and waits for the transport to drain.
PushGet ==
    /\ push = "get" /\ "push" \notin cancelReq
    /\ CanGet(chan["pcm_out"])
    /\ chan' = [chan EXCEPT !["pcm_out"] = Pop(@)]
    /\ IF Head1(chan["pcm_out"]).none \/ ~wsOpen[sess]
       THEN push' = "done" /\ UNCHANGED sentBin
       ELSE /\ push' = "drain"
            /\ sentBin' = send_binary(sentBin, Head1(chan["pcm_out"]).v)
    /\ UNCHANGED <<asr, llm, tts, rp, cancelReq, connVars, mgr,
                   conversation_active, full_transcription, asrResult, llm_action,
                   llm_full, llm_raised, rpResult, closeCalls, spoken, nPcm, pcmPut,
                   sentText, otherVars>>

\* The send returns, or raises ConnectionClosed when the connection was lost
\* meanwhile, which ends the pusher.
PushDrained ==
    /\ push = "drain" /\ "push" \notin cancelReq
    /\ push' = IF wsOpen[sess] THEN "get" ELSE "done"
    /\ UNCHANGED <<asr, llm, tts, rp, cancelReq, connVars, pipeVars, histVars,
                   otherVars>>

Next ==
    \/ \E c \in Conns : \E p \in PathsOf(c) : Connect(c, p)
    \/ \E c \in Conns : ConnLost(c)
    \/ \E c \in Conns : RecvBinary(c)
    \/ \E c \in Conns : RecvText(c)
    \/ \E c \in Conns : StreamEnd(c)
    \/ \E c \in Conns : PipelineDone(c)
    \/ \E c \in Conns : WaitClosed(c)
    \/ RpStart
    \/ RpAsrDone
    \/ RpTtsDone
    \/ RpPushDone
    \/ \E t \in {"asr", "tts", "push"} : TaskCancelled(t)
    \/ \E a \in AsrAnswers : AsrChunk(a)
    \/ \E r \in BOOLEAN : AsrEnd(r)
    \/ \E reply \in Replies, r \in BOOLEAN : LlmRun(reply, r)
    \/ \E n \in PcmCounts, r \in BOOLEAN : TtsChunk(n, r)
    \/ TtsEnd
    \/ PushGet
    \/ PushDrained

Init ==
    /\ ChanInit0
    /\ VadInit0
    /\ CodecInit0
    /\ WakeInit0
    /\ MicInit0
    /\ DrvInit0
    /\ CarInit0
    /\ MotorInit0
    /\ SessInit

ChanInit ==
    /\ ChanInit0
    /\ VadInit0
    /\ CodecInit0
    /\ WakeInit0
    /\ MicInit0
    /\ DrvInit0
    /\ CarInit0
    /\ MotorInit0
    /\ SessInit
ChanNext ==
    /\ \/ CPut
       \/ CClose
       \/ CNext
    /\ UNCHANGED <<vadVars, codecVars, wakeVars, micVars, drvVars, carVars,
                   motorVars, sessVars>>
ChanSpec == ChanInit /\ [][ChanNext]_vars

VadInit ==
    /\ ChanInit0
    /\ VadInit0
    /\ CodecInit0
    /\ WakeInit0
    /\ MicInit0
    /\ DrvInit0
    /\ CarInit0
    /\ MotorInit0
    /\ SessInit
VadNext ==
    /\ \/ \E kind \in ChunkKinds : VProcess(kind)
       \/ VPoll
       \/ VDrain
       \/ VReset
    /\ UNCHANGED <<chanVars, codecVars, wakeVars, micVars, drvVars,
                   carVars, motorVars, sessVars>>
VadSpec == VadInit /\ [][VadNext]_vars

CodecInit ==
    /\ ChanInit0
    /\ VadInit0
    /\ CodecInit0
    /\ WakeInit0
    /\ MicInit0
    /\ DrvInit0
    /\ CarInit0
    /\ MotorInit0
    /\ SessInit
CodecNext ==
    /\ \/ \E f \in Frames : CEncode(f)
       \/ \E data \in OtherData : CSupply(data)
       \/ CParse
    /\ UNCHANGED <<chanVars, vadVars, wakeVars, micVars, drvVars, carVars,
                   motorVars, sessVars>>
CodecSpec == CodecInit /\ [][CodecNext]_vars

WakeInit ==
    /\ ChanInit0
    /\ VadInit0
    /\ CodecInit0
    /\ WakeTexts
    /\ MicInit0
    /\ DrvInit0
    /\ CarInit0
    /\ MotorInit0
    /\ SessInit
WakeNext ==
    /\ \/ WCheck
    /\ UNCHANGED <<chanVars, vadVars, codecVars, micVars, drvVars, carVars,
                   motorVars, sessVars>>
WakeSpec == WakeInit /\ [][WakeNext]_vars

MicInit ==
    /\ ChanInit0
    /\ VadInit0
    /\ CodecInit0
    /\ WakeInit0
    /\ MicInit0
    /\ DrvInit0
    /\ CarInit0
    /\ MotorInit0
    /\ SessInit
MicNext ==
    /\ \/ \E kind \in MicChunks : MRound(kind)
    /\ UNCHANGED <<chanVars, vadVars, codecVars, wakeVars, drvVars,
                   carVars, motorVars, sessVars>>
MicSpec == MicInit /\ [][MicNext]_vars

DrvInit ==
    /\ ChanInit0
    /\ VadInit0
    /\ CodecInit0
    /\ WakeInit0
    /\ MicInit0
    /\ DrvInit0
    /\ CarInit0
    /\ MotorInit0
    /\ SessInit
DrvNext ==
    /\ \/ \E kind \in {"speech", "silence"} : DProcess(kind)
    /\ UNCHANGED <<chanVars, vadVars, codecVars, wakeVars, micVars,
                   carVars, motorVars, sessVars>>
DrvSpec == DrvInit /\ [][DrvNext]_vars

CarInit ==
    /\ ChanInit0
    /\ VadInit0
    /\ CodecInit0
    /\ WakeInit0
    /\ MicInit0
    /\ DrvInit0
    /\ CarInit0
    /\ MotorInit0
    /\ SessInit
CarNext ==
    /\ \/ \E kind \in FrameKinds : CarArrive(kind)
       \/ ListenerRun
       \/ SpeakerRun
    /\ UNCHANGED <<chanVars, vadVars, codecVars, wakeVars, micVars,
                   drvVars, motorVars, sessVars>>
CarSpec == CarInit /\ [][CarNext]_vars

MotorInit ==
    /\ ChanInit0
    /\ VadInit0
    /\ CodecInit0
    /\ WakeInit0
    /\ MicInit0
    /\ DrvInit0
    /\ CarInit0
    /\ MotorThreads
    /\ SessInit
MotorNext ==
    /\ \/ Tick
       \/ \E left, right \in WheelSpeeds : WebCommand(left, right)
       \/ JoystickPoll
       \/ MotorGet
       \/ MotorCheck
       \/ MotorUpdate
       \/ MotorSet
    /\ UNCHANGED <<chanVars, vadVars, codecVars, wakeVars, micVars,
                   drvVars, carVars, sessVars>>
MotorSpec == MotorInit /\ [][MotorNext]_vars

Spec == Init /\ [][Next]_vars

\* The steps the event loop takes on its own: every step of a handler or a
\* task that is ready to run.  What the car and the network do (a connection
\* arrives, a message arrives, a connection is lost) is not among them.
LoopStep ==
    \/ \E c \in Conns : StreamEnd(c)
    \/ \E c \in Conns : PipelineDone(c)
    \/ \E c \in Conns : WaitClosed(c)
    \/ RpStart
    \/ RpAsrDone
    \/ RpTtsDone
    \/ RpPushDone
    \/ \E t \in {"asr", "tts", "push"} : TaskCancelled(t)
    \/ \E a \in AsrAnswers : AsrChunk(a)
    \/ \E r \in BOOLEAN : AsrEnd(r)
    \/ \E reply \in Replies, r \in BOOLEAN : LlmRun(reply, r)
    \/ \E n \in PcmCounts, r \in BOOLEAN : TtsChunk(n, r)
    \/ TtsEnd
    \/ PushGet
    \/ PushDrained

FairSpec == Init /\ [][Next]_vars /\ WF_vars(LoopStep)

\* ------------------------------------------------------------ the claims

\* No engine raised in the session.
NoEngineRaised == asr # "failed" /\ tts # "failed" /\ ~llm_raised

\* A session ran to the end of run_pipeline with no engine failure.
CleanRun ==
    /\ rpResult.returned
    /\ asr = "done" /\ tts = "done" /\ llm = "done" /\ ~llm_raised

\* C1: in a session where the wake phrase was detected and the reply holds
\* the tag [ACTION:forward(5)], run_pipeline returns (true, "forward(5)"):
\* the command the generation stage extracted is the one returned.
C1_ReturnsExtractedCommand ==
    (/\ CleanRun
     /\ conversation_active
     /\ Search(llm_full) # 0
     /\ Group1(llm_full) = Forward5)
    => (rpResult.success /\ rpResult.action = Forward5)

\* C2: whatever the fragments of the reply, the text that entered the
\* reply-text channel, concatenated, holds no [ACTION:...] tag.
C2_NoTagSpoken == Search(spoken) = 0

\* C3: when the handler of a session whose generation stage extracted a
\* command has finished, an ActionCommand frame with that command was sent
\* to the car (stated for the sessions where no engine raised).
C3_ActionSent ==
    \A c \in Conns :
        (sess = c /\ hpc[c] = "finished" /\ CleanRun /\ llm_action # NoAction)
        => \E k \in 1..Len(sentText) : sentText[k] = ControlCmd(llm_action)

\* C4: the consumer of a channel sees the chunks put before close(), in put
\* order, then the end of the stream; no chunk follows a None in the queue.
IsPrefix(a, b) == Len(a) <= Len(b) /\ a = SubSeq(b, 1, Len(a))

C4_CloseOnce ==
    /\ IsPrefix(cObserved, cBefore)
    /\ cCons = "iterating" => cObserved \o ChunksOf(ch.queue) = cBefore
    /\ cCons = "stopped" => cObserved = cBefore
    /\ \A i, j \in 1..Len(ch.queue) :
           (i < j /\ ch.queue[i].none) => ch.queue[j].none

\* C4, its case: the consumer stopped after two chunks, and a put came after
\* the close.
C4_Witness ==
    /\ cCons = "stopped"
    /\ Len(cObserved) = 2
    /\ cPuts > 2

\* C5: the binary messages sent to the car are the PCM chunks the synthesis
\* stage put, each once and in put order; and when the pusher has stopped
\* with the connection still open, every chunk put was sent.
C5_PcmSentInOrder ==
    /\ Len(sentBin) <= nPcm
    /\ \A k \in 1..Len(sentBin) : sentBin[k] = k
    /\ (sess # "None" /\ wsOpen[sess] /\ push \in Terminal)
       => Len(sentBin) = nPcm

\* C6: at most one connection is active, and a connection that arrives while
\* car_connection is set is closed with 1008 and changes nothing of the
\* active connection: car_connection, the queues, the tasks.
ActivePc == {"recv", "await_pipeline", "wait_closed", "control"}

OneActive ==
    /\ Cardinality({c \in Conns : hpc[c] \in ActivePc}) <= 1
    /\ \A c \in Conns : hpc[c] \in ActivePc => car_connection = c

RefusalLeavesSession ==
    \A c \in Conns :
        (hpc[c] = "new" /\ hpc'[c] # "new" /\ car_connection # "None")
        => /\ hpc'[c] = "rejected"
           /\ closeCode'[c] = 1008
           /\ car_connection' = car_connection
           /\ \A d \in Conns \ {c} : hpc'[d] = hpc[d] /\ wsOpen'[d] = wsOpen[d]
           /\ UNCHANGED <<sess, taskVars, pipeVars, histVars>>

C6_SingleConnection == []OneActive /\ [][RefusalLeavesSession]_vars

\* C6, its case: B was refused while the pipeline of A was running.
C6_Witness ==
    /\ hpc["B"] = "rejected" /\ closeCode["B"] = 1008
    /\ car_connection = "A" /\ hpc["A"] = "recv"
    /\ asr = "run" /\ tts = "run" /\ push = "get"

\* C7: once the audio queue of a session is closed, run_pipeline returns and
\* the synthesis stage and the PCM pusher end, whether or not the wake
\* phrase was detected and whichever engine raised.
PipelineEnded ==
    /\ rpResult.returned
    /\ tts \in Terminal
    /\ push \in Terminal

C7_PipelineTerminates ==
    (sess # "None" /\ chan["audio_in"].is_finished) ~> PipelineEnded

\* C7, its case: the pipeline ended in a session with the wake phrase
\* detected where the generation engine raised.
C7_Witness ==
    /\ PipelineEnded
    /\ conversation_active /\ llm_raised
    /\ tts = "done" /\ push = "done"

\* C8: when the handler of a session has finished after the connection was
\* lost, close() was called once on each of the three queues and no task is
\* suspended on one of them (stated for the sessions where no engine raised).
Suspended(t, n) ==
    /\ TaskState(t) \in {"run", "get"}
    /\ t \notin cancelReq
    /\ ~CanGet(chan[n])

C8_ClosedOnceEach ==
    \A c \in Conns :
        (sess = c /\ hpc[c] = "finished" /\ NoEngineRaised)
        => /\ \A n \in ChanNames : closeCalls[n] = 1
           /\ ~Suspended("asr", "audio_in")
           /\ ~Suspended("tts", "text_out")
           /\ ~Suspended("push", "pcm_out")

\* C9: in a run of a session close() is called on the reply-text channel
\* once: never twice, and once when run_pipeline has returned (stated for
\* the runs where the transcription and synthesis engines do not raise).
C9_TextClosedOnce ==
    (asr # "failed" /\ tts # "failed")
    => /\ closeCalls["text_out"] <= 1
       /\ rpResult.returned => closeCalls["text_out"] = 1

\* C10: put on a channel whose close() was called raises ChannelClosed.
C10_PutAfterCloseRaises ==
    (cLast.op = "put" /\ cLast.wasFinished) => cLast.raised = "ChannelClosed"

\* C11: a close() on a channel whose close() was already called raises
\* DoubleClose, and the queue holds at most one None, which is its last item.
C11_DoubleCloseFails ==
    /\ (cLast.op = "close" /\ cLast.wasFinished) => cLast.raised = "DoubleClose"
    /\ NonesOf(ch.queue) <= 1
    /\ \A i \in 1..Len(ch.queue) : ch.queue[i].none => i = Len(ch.queue)

\* C12: when run_pipeline has returned in a session where the transcription,
\* generation or synthesis engine raised, it returned success = false.
C12_EngineFailureReported ==
    (rpResult.returned /\ (asr = "failed" \/ tts = "failed" \/ llm_raised))
    => ~rpResult.success

\* C13: when run_pipeline has returned in a session whose audio stream ended
\* with no wake phrase detected (stated for the sessions where no engine
\* raised), it returned success = false and no action command.
C13_NoWakeReportsFailure ==
    (rpResult.returned /\ ~conversation_active /\ asr = "done" /\ tts = "done")
    => (~rpResult.success /\ rpResult.action = NoAction)

\* No item of the queue follows a None.
NoChunkAfterNone(q) ==
    \A i, j \in 1..Len(q.queue) :
        (i < j /\ q.queue[i].none) => q.queue[j].none

\* The chunks 1..n in order.
Numbered(n) == [k \in 1..n |-> k]

\* C14: when the transcription stage has reached the end of the audio stream
\* with no wake phrase detected, the text the reply-text queue accepted is
\* the non-empty apology, put before the close, and every PCM chunk
\* synthesized from it was accepted by the PCM queue: none came after a
\* close of either queue.
C14_ApologySpoken ==
    (asr = "done" /\ ~conversation_active)
    => /\ Apology # << >>
       /\ spoken = Apology
       /\ chan["text_out"].is_finished
       /\ NoChunkAfterNone(chan["text_out"])
       /\ pcmPut = Numbered(nPcm)
       /\ NoChunkAfterNone(chan["pcm_out"])
       /\ tts = "done" => chan["pcm_out"].is_finished

\* C14, its case: no wake phrase, the apology was synthesized into a PCM
\* chunk and both queues were closed.
C14_Witness ==
    /\ asr = "done" /\ ~conversation_active
    /\ tts = "done"
    /\ spoken = Apology
    /\ pcmPut = <<1>>

\* A StatusMsg frame with a code other than 200 is among the text frames sent.
IsStatusMsg(f) == "code" \in DOMAIN f

StatusSent ==
    \E k \in 1..Len(sentText) :
        IsStatusMsg(sentText[k]) /\ sentText[k].code # 200

\* C15: when the connection of a session goes down after an engine raised
\* and the pipeline task ended while the connection was still open, a
\* StatusMsg frame with a code other than 200 was sent to the car before.
C15_StatusBeforeTeardown ==
    [][\A c \in Conns :
          (/\ sess = c /\ wsOpen[c] /\ ~wsOpen'[c]
           /\ ~NoEngineRaised
           /\ rp \in {"done", "failed"})
          => StatusSent]_vars

\* C16: the action command of the generation stage is the leftmost
\* [ACTION:...] match of the accumulated reply (none when there is no
\* match), and once recorded it does not change in the session.
FirstMatch(full) == IF Search(full) # 0 THEN Group1(full) ELSE NoAction

ActionKept ==
    (llm_action # NoAction /\ sess' = sess) => llm_action' = llm_action

C16_FirstActionWins ==
    /\ [](llm = "done" => llm_action = FirstMatch(llm_full))
    /\ [][ActionKept]_vars

\* C16, its case: the reply held two tags and the first one was recorded.
C16_Witness ==
    /\ llm = "done"
    /\ llm_full = TagForward \o <<"t">> \o TagStop
    /\ llm_action = Forward5

\* C17: within one session the wake flag never goes back to false, and the
\* generation stage is launched only by the step that sets the flag, from
\* the state where it was never launched; hence at most once, whatever the
\* later transcription results hold.
WakeOnce ==
    sess' = sess =>
       /\ conversation_active => conversation_active'
       /\ (llm' = "pending" /\ llm # "pending") =>
             (llm = "none" /\ ~conversation_active /\ conversation_active')
       /\ (~conversation_active /\ conversation_active') =>
             (llm = "none" /\ llm' = "pending")

C17_WakeOnce == [][WakeOnce]_vars

\* C17, its case: two transcription results with the wake phrase, the
\* generation stage already over when the second one arrived.
C17_Witness ==
    /\ full_transcription = <<"w", "w">>
    /\ conversation_active
    /\ llm = "done"
    /\ asr = "run"

\* C18: when run_pipeline has returned, the transcription task, the
\* generation task (if launched) and the synthesis task of the session are
\* all in a terminal state.
C18_TasksEndedAtReturn ==
    rpResult.returned =>
       /\ asr \in Terminal
       /\ tts \in Terminal
       /\ llm \in {"none", "done"}

\* C19: at the step where a connection starts a new session after a previous
\* one, the previous session's three channels are closed, its pipeline task,
\* generation task and PCM pusher have ended, no stage task is running and
\* no cancellation is outstanding.
SessionStarts(c) == hpc[c] = "new" /\ hpc'[c] = "recv"

PreviousTornDown ==
    /\ \A n \in ChanNames : chan[n].is_finished
    /\ ~is_active(mgr)
    /\ rp \in {"done", "failed"}
    /\ llm \in {"none", "done"}
    /\ push \in Terminal
    /\ asr # "run" /\ tts # "run"
    /\ cancelReq = {}

C19_NoSessionOverlap ==
    [][\A c \in Conns :
          (SessionStarts(c) /\ sess # "None") => PreviousTornDown]_vars

\* C19, its case: the second connection started a session after the
\* session of the first.
C19_Witness ==
    /\ sess = "B" /\ hpc["B"] = "recv"
    /\ hpc["A"] = "finished"
    /\ rp = "start"

\* C20: every PCM chunk the synthesis engine produced was accepted by the
\* synthesis-output queue, in the order of production, no chunk lies behind
\* the queue's end mark, the queue is closed once the synthesis stage has
\* ended normally, and the synthesis stage closes it only in the step that
\* takes the end of stream from the reply-text queue and ends the stage.
SynthesisCloses ==
    /\ closeCalls'["pcm_out"] = closeCalls["pcm_out"] + 1
    /\ mgr' = mgr

ClosesAtEndOfText ==
    SynthesisCloses =>
       /\ tts = "run" /\ tts' = "done"
       /\ CanGet(chan["text_out"]) /\ Head1(chan["text_out"]).none
       /\ nPcm' = nPcm /\ pcmPut' = pcmPut

C20_SynthesisForwardsAll ==
    /\ [](/\ pcmPut = Numbered(nPcm)
          /\ NoChunkAfterNone(chan["pcm_out"])
          /\ tts = "done" => chan["pcm_out"].is_finished)
    /\ [][ClosesAtEndOfText]_vars

\* C20, its case: two reply fragments were synthesized, one PCM chunk each,
\* and the synthesis stage then closed the synthesis-output queue.
C20_Witness ==
    /\ tts = "done"
    /\ pcmPut = <<1, 2>>
    /\ closeCalls["pcm_out"] = 1
    /\ chan["pcm_out"].is_finished

\* ------------------------------------------------- the claims on the VAD

\* C21: a call of is_silence_end made when no frame was classified as speech
\* since the detector was created, was reset or last reported an utterance
\* end returns false.
C21_SilenceNeverEnds ==
    (vLast.op = "is_silence_end" /\ ~vLast.speech) => ~vLast.ret

\* C21, its case: the call came after enough silence to fill the buffer,
\* with no speech frame ever processed.
C21_Witness ==
    /\ vLast.op = "is_silence_end" /\ ~vLast.speech /\ ~vLast.ret
    /\ vEnds = 0
    /\ Len(vad.frame_buffer) = BufferMax
    /\ vArrived = 0

\* C22: after a speech frame followed by silence frames, is_silence_end
\* returns false while fewer than SILENCE_CHUNK_COUNT silence frames were
\* processed since the speech frame, and true once SILENCE_CHUNK_COUNT were.
C22_EndAtThreshold ==
    (vLast.op = "is_silence_end" /\ vLast.speech)
    => (vLast.ret <=> vLast.run >= SILENCE_CHUNK_COUNT)

\* C23: the call of is_silence_end that returns true leaves the detector
\* Silent with silence counter 0 and an empty frame buffer; a call returns
\* true exactly when a speech frame was processed since the last utterance
\* end (or reset) and more than SILENCE_CHUNK_COUNT silence frames followed
\* it, so later calls return false until a new speech frame and the same
\* sequence triggers it again.
C23_OncePerUtterance ==
    vLast.op = "is_silence_end" =>
       /\ vLast.ret => (vad = NewVad /\ ~vSpeech)
       /\ vLast.ret <=> (vLast.speech /\ vLast.run > SILENCE_CHUNK_COUNT)

\* C23, its case: a second utterance end was just reported.
C23_Witness ==
    /\ vLast.op = "is_silence_end" /\ vLast.ret
    /\ vEnds = 2

\* C24: is_silence_end returns true only if more than SILENCE_CHUNK_COUNT
\* non-speech frames were processed since the most recent speech frame, and
\* every speech frame leaves the silence counter at 0.
C24_NoEarlyEnd ==
    /\ (vLast.op = "is_silence_end" /\ vLast.ret)
          => vLast.run > SILENCE_CHUNK_COUNT
    /\ (vLast.op = "process_chunk" /\ vLast.kind = "speech")
          => vad.silence_chunks_count = 0
    /\ vad.active_speech_detected => vad.silence_chunks_count = vRun

\* C24, its case: the first utterance end, reported after 51 silence frames
\* that followed the most recent speech frame, other silence frames having
\* been processed before that speech frame.
C24_Witness ==
    /\ vLast.op = "is_silence_end" /\ vLast.ret
    /\ vLast.run = SILENCE_CHUNK_COUNT + 1
    /\ vEnds = 1
    /\ vArrived = Payload(SILENCE_CHUNK_COUNT + 2)

\* C25: the silence counter is non-zero only if the speech-active flag is
\* true.
C25_CountOnlyWhenActive ==
    vad.silence_chunks_count # 0 => vad.active_speech_detected

\* C25, its case: the counter is non-zero, and the last call took the
\* buffered frames.
C25_Witness ==
    /\ vad.silence_chunks_count > 1
    /\ vLast.op = "get_buffered_frames" /\ vLast.ret # << >>

\* C26: right after process_chunk classified a frame as speech the frame
\* buffer is empty.
C26_BufferDrainedOnSpeech ==
    (vLast.op = "process_chunk" /\ vLast.kind = "speech")
    => vad.frame_buffer = << >>

\* C27: the frame buffer never holds more than BufferMax frames, and it
\* holds the most recent non-speech frames in arrival order, the last one
\* processed at its end.
C27_BufferBounded ==
    LET buf == vad.frame_buffer
    IN  /\ Len(buf) <= BufferMax
        /\ \A i \in 1..Len(buf) :
              buf[i] = Payload(vArrived + (BufferMax + 1) - (Len(buf) - i))

\* C27, its case: a frame arrived at a full buffer, whose oldest frame left.
C27_Witness ==
    /\ Len(vad.frame_buffer) = BufferMax
    /\ vArrived = Payload(BufferMax + 2)
    /\ vad.frame_buffer[1] = Payload(3)
    /\ vLast.op = "process_chunk"

\* C28: process_chunk on a chunk of another byte length returns false and
\* leaves the speech-active flag, the silence counter and the frame buffer
\* as they were.
BadSizeStep ==
    /\ vLast'.op = "process_chunk" /\ vLast'.kind = "badsize"
    /\ vLast' # vLast

C28_BadSizeIgnored ==
    /\ []((vLast.op = "process_chunk" /\ vLast.kind = "badsize") => ~vLast.ret)
    /\ [][BadSizeStep => vad' = vad]_vars

\* C28, its case: the chunk came to an active detector with a non-zero
\* counter and a full buffer.
C28_Witness ==
    /\ vLast.op = "process_chunk" /\ vLast.kind = "badsize"
    /\ vad.active_speech_detected
    /\ vad.silence_chunks_count = 2
    /\ Len(vad.frame_buffer) = BufferMax

\* ------------------------------------------- the claims on the frame codec

\* The fields of a frame that travel in its JSON text.
WireFields(cls) ==
    IF cls = "AudioFrame" THEN {"seq", "is_final"} ELSE AllFields(cls)

\* C29: parse_frame, given the JSON text of a frame, returns a frame of the
\* same class whose fields (for AudioFrame: seq and is_final) are equal to
\* those of the frame that was encoded.
C29_RoundTrip ==
    (cdFrame # NoFrame /\ cdOut.called)
    => /\ cdOut.raised = "none"
       /\ cdOut.ret.cls = cdFrame.cls
       /\ \A k \in WireFields(cdFrame.cls) :
             cdOut.ret.fields[k] = cdFrame.fields[k]

\* A field set that is the one of a frame class: every field without a
\* default, and no field of another class.
Recognized(members) ==
    \E cls \in FrameClasses :
       Required(cls) \subseteq DOMAIN members
       /\ DOMAIN members \subseteq AllFields(cls)

\* C30: parse_frame raises for no input; it returns a frame for a JSON
\* object with a recognized field set and None for every other input.
C30_NeverRaises ==
    cdOut.called =>
       /\ cdOut.raised = "none"
       /\ cdOut.ret # NoFrame <=>
             (/\ cdData.kind = "str"
              /\ cdData.text.t = "object"
              /\ Recognized(cdData.text.members))

\* ------------------------------------------- the claims on the wake phrase

\* C31: whenever the wake phrase is detected in the transcript, the prompt
\* handed to the generation stage does not contain the wake phrase, for the
\* detector's own notion of containing it.
C31_PromptWithoutWakePhrase ==
    (wake.checked /\ wake.detected) => ~is_detected(wake.prompt)

\* ------------------------------------ the claims on the microphone client

\* C32: in the round in which speech onset is confirmed, the client sends
\* the frames the detector had buffered before the onset, in capture order,
\* and then the onset frame.
C32_LeadingSilenceSent ==
    mic.last.onset => mic.last.sent = mic.last.lead \o <<mic.last.chunk>>

Occurrences(s, x) == Cardinality({i \in 1..Len(s) : s[i] = x})

\* C33: every processed frame is in the send list at most once.
C33_NoFrameTwice ==
    \A k \in 1..drv.frames : Occurrences(drv.frames_to_send, k) <= 1

\* C37: for each frame duration a detector is constructed with,
\* is_silence_end, called after a speech frame, returns true exactly when
\* more silence frames than SILENCE_TIMEOUT_MS divided by the frame duration
\* were processed since the speech frame.
C37_ThresholdFromTimeout ==
    \A ms \in ChunkDurations :
        (vLast.op = "is_silence_end" /\ vLast.speech)
        => (vLast.ret <=> vLast.run > SILENCE_TIMEOUT_MS \div ms)

\* ------------------------------------- the claims on the session's channels

\* The transcription loop ends with its fallback: it closes the text queue.
FallbackActs ==
    /\ asr = "run" /\ asr' = "done"
    /\ closeCalls'["text_out"] = closeCalls["text_out"] + 1

\* The generation task runs.
LlmActs == llm = "pending" /\ llm' = "done"

\* A producer of the text queue has closed it.
ProducerClosed == llm = "done" \/ (asr = "done" /\ ~conversation_active)

\* C35: the fallback of the transcription loop acts only in a session whose
\* generation task was never created, and the generation task only in a
\* session whose wake flag is set, in which the fallback does not act; the
\* fallback's push comes before its close; each producer leaves the text
\* queue closed, and no text enters it after a producer closed it.
C35_SingleProducer ==
    [][/\ FallbackActs => (llm = "none" /\ llm' = "none")
       /\ LlmActs => (conversation_active /\ conversation_active')
       /\ (FallbackActs /\ ~chan["text_out"].is_finished)
            => spoken' = spoken \o Apology
       /\ (FallbackActs \/ LlmActs) => chan'["text_out"].is_finished
       /\ (ProducerClosed /\ ProducerClosed')
            => /\ spoken' = spoken
               /\ LET was == ChunksOf(chan["text_out"].queue)
                      is == ChunksOf(chan'["text_out"].queue)
                  IN  is = was \/ (was # << >> /\ is = Tail(was))
      ]_vars

\* The generation task has pushed its reply and closed the text queue, and
\* the transcription loop has ended without its fallback.
C35_Witness ==
    /\ llm = "done" /\ asr = "done" /\ conversation_active
    /\ spoken # << >>
    /\ closeCalls["text_out"] = 1

\* C36: the step in which a handler starts a session, whatever the previous
\* session left, ends with three channels that hold no item and are not
\* closed, all three held by the manager, the wake flag false, and nothing of
\* the previous session's transcription, reply or results.
C36_FreshSession ==
    [][\A c \in Conns :
          SessionStarts(c) =>
             /\ \A n \in ChanNames :
                   /\ chan'[n].queue = << >>
                   /\ ~chan'[n].is_finished
                   /\ mgr'[n]
             /\ ~conversation_active'
             /\ full_transcription' = << >>
             /\ llm' = "none" /\ llm_action' = NoAction
             /\ rpResult' = NoResult]_vars

\* C36, its case: the second connection has started a session after the
\* first session's channels were closed, and its channels are new.
C36_Witness ==
    /\ sess = "B" /\ hpc["A"] = "finished" /\ rp = "start"
    /\ chan = [n \in ChanNames |-> NewQueue]
    /\ \A n \in ChanNames : mgr[n]
    /\ ~conversation_active

\* ------------------------------------------ the claim on the car's executor

\* The ids of the action frames of a sequence of frames, in order.
RECURSIVE ActionIds(_)
ActionIds(frames) ==
    IF frames = << >> THEN << >>
    ELSE IF Head(frames).kind = "action"
    THEN <<Head(frames).id>> \o ActionIds(Tail(frames))
    ELSE ActionIds(Tail(frames))

\* C34: execute_action_command was called exactly once, in the order of
\* arrival, for each action frame that recv() has handed out, and the frames
\* not yet handed out are the last that arrived: none was executed twice and
\* none was taken without being executed.
C34_ExecutedOncePerCommand ==
    LET taken == Len(car.arrived) - Len(car.messages)
    IN  /\ taken >= 0
        /\ car.messages = SubSeq(car.arrived, taken + 1, Len(car.arrived))
        /\ car.executed = ActionIds(SubSeq(car.arrived, 1, taken))

\* C34, its case: the second loop has ended at its first recv(), and the
\* listener executed two action frames with another frame between them.
C34_Witness ==
    /\ car.speaker_task = "failed" /\ car.listener_task = "waiting"
    /\ car.messages = << >>
    /\ Len(car.executed) = 2 /\ car.executed[2] > car.executed[1] + 1

\* ------------------------------------------- the claim on the motor thread

\* C39: when the motor thread's timeout check came more than TIMEOUT_SECONDS
\* after the last message that set the wheel speeds, the _set_motors that
\* follows the check sets both wheel groups to speed 0.
C39_DeadManStops ==
    (/\ controller.pc = "get"
     /\ controller.checked
     /\ controller.checked_at - controller.checked_lastCmd > TIMEOUT_SECONDS)
    => (controller.left_pwm = 0 /\ controller.right_pwm = 0)

=============================================================================
